---- MODULE Spec2Model ----
(***************************************************************************)
(* A model of the KAST reconnaissance engine: the JSON recovery pipeline   *)
(* (src/src/modules/utils/json_utils.py), the probe adapters (the modules  *)
(* of src/src/modules/recon, src/src/modules/vuln_scan/nikto_scanner.py    *)
(* and src/kast), the polling loops of the API-backed adapters and the     *)
(* coordinator run_recon (src/src/modules/recon/coordinator.py).           *)
(*                                                                         *)
(* Text is a sequence of one-character strings.  A parsed JSON value is a  *)
(* record [t |-> tag, v |-> payload]; Python's None and JSON null are the  *)
(* same value, as they are in Python.                                      *)
(***************************************************************************)
EXTENDS Integers, Sequences, FiniteSets, TLC

\* ------------------------------------------------------------------------
\* Characters
\* ------------------------------------------------------------------------

QUOTE == "\""

BSL == "\\"

NL == "\n"

SP == " "

APOS == "'"

\* str.strip() and the json module's WHITESPACE, over the model's alphabet
Whitespace == {SP, NL}

\* the hexadecimal digit of the alphabet the model draws input text from
\* (the texts json.dump writes hold a backslash-u escape only for U1111)
HexDigits == {"1"}

\* the character the escape backslash-u-1111 decodes to
U1111 == "U+1111"

\* ------------------------------------------------------------------------
\* Python values
\* ------------------------------------------------------------------------

PyNone == [t |-> "null", v |-> 0]

PyBool(b) == [t |-> "bool", v |-> b]

PyInt(n) == [t |-> "num", v |-> n]

\* a float, held in tenths
PyFloat(tenths) == [t |-> "float", v |-> tenths]
PyStr(s) == [t |-> "str", v |-> s]

PyList(xs) == [t |-> "arr", v |-> xs]

\* a dict, as the sequence of its <<key, value>> items in insertion order
PyDict(items) == [t |-> "obj", v |-> items]

\* bool(x): None, False, 0, "", [] and {} are falsy
Truthy(x) ==
    CASE x.t = "null" -> FALSE
      [] x.t = "bool" -> x.v
      [] x.t = "num" -> x.v # 0
      [] x.t = "float" -> x.v # 0
      [] OTHER -> Len(x.v) > 0

\* d[key] = val on the item sequence of a dict: a repeated key keeps its
\* place and takes the new value
DictPut(items, key, val) ==
    IF \E i \in 1..Len(items) : items[i][1] = key
    THEN [i \in 1..Len(items) |->
            IF items[i][1] = key THEN <<key, val>> ELSE items[i]]
    ELSE Append(items, <<key, val>>)

\* ------------------------------------------------------------------------
\* json.loads
\* ------------------------------------------------------------------------

Fail == [ok |-> FALSE, val |-> PyNone, next |-> 0]

Ok(val, next) == [ok |-> TRUE, val |-> val, next |-> next]

RECURSIVE SkipWs(_, _)
\* WHITESPACE.match(s, i).end(): the first index at or after i that holds
\* no whitespace (Len(s) + 1 when there is none)
SkipWs(s, i) ==
    IF i <= Len(s) /\ s[i] \in Whitespace THEN SkipWs(s, i + 1) ELSE i

RECURSIVE ScanString(_, _, _)
\* scanstring(s, i) with strict=True: i is the index after the opening quote
ScanString(s, i, acc) ==
    IF i > Len(s) THEN Fail
    ELSE IF s[i] = QUOTE THEN Ok(PyStr(acc), i + 1)
    ELSE IF s[i] = NL THEN Fail
    ELSE IF s[i] = BSL THEN
        IF i + 1 > Len(s) THEN Fail
        ELSE IF s[i + 1] = QUOTE THEN ScanString(s, i + 2, Append(acc, QUOTE))
        ELSE IF s[i + 1] = BSL THEN ScanString(s, i + 2, Append(acc, BSL))
        ELSE IF s[i + 1] = "n" THEN ScanString(s, i + 2, Append(acc, NL))
        ELSE IF s[i + 1] = "u" THEN
            IF i + 5 <= Len(s) /\ \A k \in (i + 2)..(i + 5) : s[k] \in HexDigits
            THEN ScanString(s, i + 6, Append(acc, U1111))
            ELSE Fail
        ELSE Fail
    ELSE ScanString(s, i + 1, Append(acc, s[i]))

Digits == {"0", "1", "2", "3", "4", "5", "6", "7", "8", "9"}

DigitValue(c) == CHOOSE d \in 0..9 : <<"0", "1", "2", "3", "4", "5", "6", "7", "8", "9">>[d + 1] = c

RECURSIVE ScanDigits(_, _, _)
\* the \d* of NUMBER_RE: a maximal run of digits, n being the value so far
ScanDigits(s, i, n) ==
    IF i <= Len(s) /\ s[i] \in Digits
    THEN ScanDigits(s, i + 1, 10 * n + DigitValue(s[i]))
    ELSE Ok(PyInt(n), i)

\* NUMBER_RE, (0|[1-9]\d*), at a digit s[i]: the texts of the model hold no
\* sign, fraction or exponent
ScanNumber(s, i) ==
    IF s[i] = "0" THEN Ok(PyInt(0), i + 1) ELSE ScanDigits(s, i, 0)

RECURSIVE ScanOnce(_, _)
RECURSIVE ScanElems(_, _, _)
RECURSIVE ScanMembers(_, _, _)

\* JSONArray: i is the index after "["
ScanArray(s, i) ==
    LET j == SkipWs(s, i)
    IN  IF j <= Len(s) /\ s[j] = "]" THEN Ok(PyList(<<>>), j + 1)
        ELSE ScanElems(s, j, <<>>)

\* the element loop of JSONArray: a value, then "]" or "," and the next value
ScanElems(s, j, acc) ==
    LET r == ScanOnce(s, j)
        k == SkipWs(s, r.next)
    IN  IF ~r.ok THEN Fail
        ELSE IF k > Len(s) THEN Fail
        ELSE IF s[k] = "]" THEN Ok(PyList(Append(acc, r.val)), k + 1)
        ELSE IF s[k] = "," THEN ScanElems(s, SkipWs(s, k + 1), Append(acc, r.val))
        ELSE Fail

\* JSONObject: i is the index after "{"
ScanObject(s, i) ==
    LET j == SkipWs(s, i)
    IN  IF j > Len(s) THEN Fail
        ELSE IF s[j] = "}" THEN Ok(PyDict(<<>>), j + 1)
        ELSE IF s[j] # QUOTE THEN Fail
        ELSE ScanMembers(s, j, <<>>)

\* the member loop of JSONObject: s[j] is the opening quote of a key
ScanMembers(s, j, acc) ==
    LET key == ScanString(s, j + 1, <<>>)
        c == SkipWs(s, key.next)
        r == ScanOnce(s, SkipWs(s, c + 1))
        e == SkipWs(s, r.next)
        n == SkipWs(s, e + 1)
        items == DictPut(acc, key.val.v, r.val)
    IN  IF ~key.ok THEN Fail
        ELSE IF c > Len(s) \/ s[c] # ":" THEN Fail
        ELSE IF ~r.ok THEN Fail
        ELSE IF e > Len(s) THEN Fail
        ELSE IF s[e] = "}" THEN Ok(PyDict(items), e + 1)
        ELSE IF s[e] # "," THEN Fail
        ELSE IF n > Len(s) \/ s[n] # QUOTE THEN Fail
        ELSE ScanMembers(s, n, items)

\* scan_once(s, i): one JSON value starting exactly at i
ScanOnce(s, i) ==
    IF i > Len(s) THEN Fail
    ELSE IF s[i] = QUOTE THEN ScanString(s, i + 1, <<>>)
    ELSE IF s[i] = "{" THEN ScanObject(s, i + 1)
    ELSE IF s[i] = "[" THEN ScanArray(s, i + 1)
    ELSE IF s[i] = "n" THEN
        IF i + 3 <= Len(s) /\ SubSeq(s, i, i + 3) = <<"n", "u", "l", "l">>
        THEN Ok(PyNone, i + 4) ELSE Fail
    ELSE IF s[i] = "true" THEN Ok(PyBool(TRUE), i + 1)
    ELSE IF s[i] = "false" THEN Ok(PyBool(FALSE), i + 1)
    ELSE IF s[i] \in Digits THEN ScanNumber(s, i)
    ELSE Fail

\* json.loads(s): [ok |-> FALSE] stands for JSONDecodeError
JsonLoads(s) ==
    LET r == ScanOnce(s, SkipWs(s, 1))
    IN  IF r.ok /\ SkipWs(s, r.next) = Len(s) + 1
        THEN [ok |-> TRUE, val |-> r.val]
        ELSE [ok |-> FALSE, val |-> PyNone]

\* ------------------------------------------------------------------------
\* Text helpers of robust_json_parse
\* ------------------------------------------------------------------------

RECURSIVE LStrip(_)
LStrip(s) ==
    IF Len(s) > 0 /\ s[1] \in Whitespace THEN LStrip(Tail(s)) ELSE s

RECURSIVE RStrip(_)
RStrip(s) ==
    IF Len(s) > 0 /\ s[Len(s)] \in Whitespace
    THEN RStrip(SubSeq(s, 1, Len(s) - 1)) ELSE s

\* str.strip()
Strip(s) == RStrip(LStrip(s))

\* str.startswith(c) and str.endswith(c) for a one-character c
StartsWith(s, c) == Len(s) > 0 /\ s[1] = c

EndsWith(s, c) == Len(s) > 0 /\ s[Len(s)] = c

Positions(s, c) == {i \in 1..Len(s) : s[i] = c}

Min(S) == CHOOSE x \in S : \A y \in S : x <= y

Max(S) == CHOOSE x \in S : \A y \in S : x >= y

\* re.search(open + ".*" + close, s, re.DOTALL): the leftmost match starts at
\* the first open that has a close after it, and the greedy .* ends it at the
\* last close.  [found |-> FALSE] stands for no match.
RegexSearch(s, open, close) ==
    LET opens == Positions(s, open)
        closes == Positions(s, close)
    IN  IF opens # {} /\ closes # {} /\ Min(opens) < Max(closes)
        THEN [found |-> TRUE, group |-> SubSeq(s, Min(opens), Max(closes))]
        ELSE [found |-> FALSE, group |-> <<>>]

RECURSIVE Replace(_, _, _)
\* str.replace(BSL + c, c): every backslash followed by c loses the backslash,
\* scanning left to right without overlap
Replace(s, c, from) ==
    IF from > Len(s) THEN <<>>
    ELSE IF from < Len(s) /\ s[from] = BSL /\ s[from + 1] = c
         THEN <<c>> \o Replace(s, c, from + 2)
         ELSE <<s[from]>> \o Replace(s, c, from + 1)

RECURSIVE Split(_, _, _)
\* str.split(NL): the lines of s, the current line being cur
Split(s, from, cur) ==
    IF from > Len(s) THEN <<cur>>
    ELSE IF s[from] = NL THEN <<cur>> \o Split(s, from + 1, <<>>)
    ELSE Split(s, from + 1, Append(cur, s[from]))

\* ------------------------------------------------------------------------
\* robust_json_parse
\* ------------------------------------------------------------------------

\* step 1: strip, then keep a bracketed text as it is or cut it down to the
\* {...} match, else to the [...] match, else leave it
CleanContent(content) ==
    LET stripped == Strip(content)
        json_obj_match == RegexSearch(stripped, "{", "}")
        json_arr_match == RegexSearch(stripped, "[", "]")
    IN  IF StartsWith(stripped, "[") /\ EndsWith(stripped, "]") THEN stripped
        ELSE IF StartsWith(stripped, "{") /\ EndsWith(stripped, "}") THEN stripped
        ELSE IF json_obj_match.found THEN json_obj_match.group
        ELSE IF json_arr_match.found THEN json_arr_match.group
        ELSE stripped

\* step 2: content.replace('\\"', '"').replace('\\\'', '\'')
FixEscapes(content) == Replace(Replace(content, QUOTE, 1), APOS, 1)

\* a line of step 4 contributes its value when it starts with "{" or "["
\* after stripping and json.loads accepts it
LineValue(line, obj) ==
    IF Len(line) > 0 /\ (StartsWith(line, "{") \/ StartsWith(line, "[")) /\ obj.ok
    THEN <<obj.val>> ELSE <<>>

RECURSIVE ParseLines(_, _)
\* step 4: the parsed values of the lines, from line i on
ParseLines(lines, i) ==
    IF i > Len(lines) THEN <<>>
    ELSE LineValue(Strip(lines[i]), JsonLoads(Strip(lines[i]))) \o ParseLines(lines, i + 1)

\* what robust_json_parse returns: val is the value; step names the return
\* statement taken ("direct" line 17, "cleaned" line 54, "lines" line 70,
\* "failed" line 86); debug is the text written to the debug file, when one
\* is written
Parsed(val, step) == [val |-> val, step |-> step, debug_written |-> FALSE, debug |-> <<>>]

\* return json.loads' value when it gave one, else go on
OrElse(loaded, step, otherwise) == IF loaded.ok THEN Parsed(loaded.val, step) ELSE otherwise

\* lines 57-86: the line-by-line parse of the cleaned text, then the debug
\* dump and None
ByLines(cleaned, json_data, want_debug, writable) ==
    IF Len(json_data) > 0 THEN Parsed(PyList(json_data), "lines")
    ELSE [val |-> PyNone, step |-> "failed",
          debug_written |-> want_debug /\ writable,
          debug |-> IF want_debug /\ writable THEN cleaned ELSE <<>>]

\* lines 18-86, on the cleaned and unescaped text
Recover(cleaned, want_debug, writable) ==
    OrElse(JsonLoads(cleaned), "cleaned",
           ByLines(cleaned, ParseLines(Split(cleaned, 1, <<>>), 1), want_debug, writable))

\* robust_json_parse(content, output_dir, debug_filename); want_debug: both
\* output_dir and debug_filename are given; writable: the open() of the debug
\* file succeeds
robust_json_parse(content, want_debug, writable) ==
    OrElse(JsonLoads(content), "direct",
           Recover(FixEscapes(CleanContent(content)), want_debug, writable))

\* ------------------------------------------------------------------------
\* json.dump(data, f, indent=4)
\* ------------------------------------------------------------------------

\* a dict key or a string made of one atom of text
K(name) == <<name>>

S(name) == PyStr(<<name>>)

DigitChars == <<"0", "1", "2", "3", "4", "5", "6", "7", "8", "9">>

RECURSIVE IntText(_)
\* str(n) of a non-negative int
IntText(n) ==
    IF n < 10 THEN <<DigitChars[n + 1]>>
    ELSE IntText(n \div 10) \o <<DigitChars[(n % 10) + 1]>>

RECURSIVE EscapeText(_, _)
\* the body of a JSON string literal (ensure_ascii=True)
EscapeText(s, i) ==
    IF i > Len(s) THEN <<>>
    ELSE (CASE s[i] = QUOTE -> <<BSL, QUOTE>>
            [] s[i] = BSL -> <<BSL, BSL>>
            [] s[i] = NL -> <<BSL, "n">>
            [] s[i] = U1111 -> <<BSL, "u", "1", "1", "1", "1">>
            [] OTHER -> <<s[i]>>) \o EscapeText(s, i + 1)

StrLiteral(s) == <<QUOTE>> \o EscapeText(s, 1) \o <<QUOTE>>

RECURSIVE Indent(_)
\* level * 4 spaces
Indent(level) ==
    IF level = 0 THEN <<>> ELSE <<SP, SP, SP, SP>> \o Indent(level - 1)

RECURSIVE JsonDump(_, _)
RECURSIVE DumpElems(_, _, _)
RECURSIVE DumpItems(_, _, _)

\* the text json.dump(x, f, indent=4) writes for x nested level deep
JsonDump(x, level) ==
    CASE x.t = "null" -> <<"n", "u", "l", "l">>
      [] x.t = "bool" -> IF x.v THEN <<"true">> ELSE <<"false">>
      [] x.t = "num" -> IntText(x.v)
      [] x.t = "str" -> StrLiteral(x.v)
      [] x.t = "arr" ->
            IF Len(x.v) = 0 THEN <<"[", "]">>
            ELSE <<"[", NL>> \o DumpElems(x.v, 1, level + 1)
                 \o <<NL>> \o Indent(level) \o <<"]">>
      [] x.t = "obj" ->
            IF Len(x.v) = 0 THEN <<"{", "}">>
            ELSE <<"{", NL>> \o DumpItems(x.v, 1, level + 1)
                 \o <<NL>> \o Indent(level) \o <<"}">>

DumpElems(xs, i, level) ==
    Indent(level) \o JsonDump(xs[i], level)
    \o (IF i = Len(xs) THEN <<>> ELSE <<",", NL>> \o DumpElems(xs, i + 1, level))

DumpItems(items, i, level) ==
    Indent(level) \o StrLiteral(items[i][1]) \o <<":", SP>> \o JsonDump(items[i][2], level)
    \o (IF i = Len(items) THEN <<>> ELSE <<",", NL>> \o DumpItems(items, i + 1, level))

\* ------------------------------------------------------------------------
\* dict helpers
\* ------------------------------------------------------------------------

IsDict(x) == x.t = "obj"

\* key in d, for a dict d
HasKey(d, key) == \E i \in 1..Len(d.v) : d.v[i][1] = key

\* d[key], for a key of the dict d
Get(d, key) == d.v[CHOOSE i \in 1..Len(d.v) : d.v[i][1] = key][2]

\* d.get(key, default)
GetOr(d, key, default) == IF HasKey(d, key) THEN Get(d, key) ELSE default

\* ------------------------------------------------------------------------
\* xml.etree.ElementTree on markup made of whole tags and text atoms
\* ------------------------------------------------------------------------

\* the declaration run_theharvester prepends
XmlDecl == "<?xml version=\"1.0\" encoding=\"UTF-8\"?>"

OpenTags == {"<theHarvester>", "<email>", "<host>", "<vhost>"}

CloseTags == {"</theHarvester>", "</email>", "</host>", "</vhost>"}

TagName(tok) ==
    CASE tok \in {"<theHarvester>", "</theHarvester>"} -> "theHarvester"
      [] tok \in {"<email>", "</email>"} -> "email"
      [] tok \in {"<host>", "</host>"} -> "host"
      [] tok \in {"<vhost>", "</vhost>"} -> "vhost"

XmlFail == [ok |-> FALSE, next |-> 0, elems |-> <<>>]

RECURSIVE XmlContent(_, _, _, _, _, _)
\* the content of an element named tag, from token i on: text is the text
\* read before the first child, elems the descendants met so far.  The
\* result lists the element itself first, then its descendants in document
\* order, each as [tag, text].
XmlContent(toks, i, tag, text, seen_child, elems) ==
    IF i > Len(toks) THEN XmlFail
    ELSE IF toks[i] = XmlDecl THEN XmlFail
    ELSE IF toks[i] \in CloseTags THEN
        IF TagName(toks[i]) = tag
        THEN [ok |-> TRUE, next |-> i + 1,
              elems |-> <<[tag |-> tag, text |-> text]>> \o elems]
        ELSE XmlFail
    ELSE IF toks[i] \in OpenTags THEN
        LET child == XmlContent(toks, i + 1, TagName(toks[i]), <<>>, FALSE, <<>>)
        IN  IF child.ok
            THEN XmlContent(toks, child.next, tag, text, TRUE, elems \o child.elems)
            ELSE XmlFail
    ELSE XmlContent(toks, i + 1, tag,
                    IF seen_child THEN text ELSE Append(text, toks[i]),
                    seen_child, elems)

\* ET.parse / ET.fromstring: [ok |-> FALSE] stands for ParseError.  A
\* declaration is accepted only as the very first token; the document is one
\* element with nothing but whitespace around it.
XmlParse(toks) ==
    LET start == IF Len(toks) > 0 /\ toks[1] = XmlDecl THEN 2 ELSE 1
        j == SkipWs(toks, start)
        root == XmlContent(toks, j + 1, TagName(toks[j]), <<>>, FALSE, <<>>)
    IN  IF j > Len(toks) THEN XmlFail
        ELSE IF toks[j] \notin OpenTags THEN XmlFail
        ELSE IF ~root.ok THEN XmlFail
        ELSE IF SkipWs(toks, root.next) # Len(toks) + 1 THEN XmlFail
        ELSE root

RECURSIVE FindAllText(_, _, _)
\* [e.text for e in root.findall('.//' + tag) if e.text]: the descendants of
\* the root (elems[1] is the root itself) named tag whose text is not empty
FindAllText(elems, i, tag) ==
    IF i > Len(elems) THEN <<>>
    ELSE IF elems[i].tag = tag /\ Len(elems[i].text) > 0
         THEN <<PyStr(elems[i].text)>> \o FindAllText(elems, i + 1, tag)
         ELSE FindAllText(elems, i + 1, tag)

\* ------------------------------------------------------------------------
\* Targets (src/src/modules/utils/validators.py)
\* ------------------------------------------------------------------------

\* A target is [scheme, host]: scheme is "" when the text of the target does
\* not start with http:// or https://
Targets ==
    {[scheme |-> "", host |-> "example.com"],
     [scheme |-> "http://", host |-> "example.com"],
     [scheme |-> "https://", host |-> "example.com"]}

\* the targets main can be given: those, an address, and two that are no
\* URL, address or host name
MainTargets ==
    Targets \cup {[scheme |-> "", host |-> "192.0.2.1"],
                  [scheme |-> "", host |-> "exa mple"],
                  [scheme |-> "https://", host |-> ""]}

\* the texts socket.inet_aton accepts
IpTexts == {"192.0.2.1"}
\* the texts the host name pattern of is_valid_target matches
HostNames == {"example.com", "example.org"}

\* target.startswith(('http://', 'https://'))
HasScheme(target) == target.scheme \in {"http://", "https://"}

TargetText(target) ==
    IF target.scheme = "" THEN <<target.host>> ELSE <<target.scheme, target.host>>

\* is_valid_target(target): a URL needs a scheme and a netloc; anything else
\* must be an address or match the host name pattern
is_valid_target(target) ==
    IF HasScheme(target) THEN target.host # ""
    ELSE target.host \in IpTexts \/ target.host \in HostNames

normalize_url(url) ==
    IF ~HasScheme(url) THEN [scheme |-> "http://", host |-> url.host] ELSE url

\* urlparse(normalize_url(url)).netloc, as text
extract_domain(url) == <<normalize_url(url).host>>

\* ------------------------------------------------------------------------
\* The filesystem: a function from the paths that exist to their text
\* ------------------------------------------------------------------------

\* os.path.join(output_dir, name)
Join(output_dir, name) == <<output_dir, "/", name>>

Exists(fs, path) == path \in DOMAIN fs

WriteFile(fs, path, text) ==
    [q \in DOMAIN fs \cup {path} |-> IF q = path THEN text ELSE fs[q]]

\* a directory is a path that maps to this text
DirText == <<"<dir>">>
\* os.path.dirname(dir), "" for a directory of one component
Parent(dir) ==
    CASE dir \in {"out/recon", "out/logs"} -> "out"
      [] dir \in {"results/example.com-2024-01-01-00-00-00",
                  "results/example.com-2024-01-01-00-00-01"} -> "results"
      [] dir \in {"results/example.com-2024-01-01-00-00-00/recon",
                  "results/example.com-2024-01-01-00-00-00/logs"} ->
            "results/example.com-2024-01-01-00-00-00"
      [] dir \in {"results/example.com-2024-01-01-00-00-01/recon",
                  "results/example.com-2024-01-01-00-00-01/logs"} ->
            "results/example.com-2024-01-01-00-00-01"
      [] OTHER -> ""

\* os.makedirs(dir, exist_ok=True): the directory is made, and before it
\* every directory above it
RECURSIVE MkDir(_, _)
MkDir(files, dir) ==
    WriteFile(IF Parent(dir) = "" THEN files ELSE MkDir(files, Parent(dir)), <<dir>>, DirText)

\* os.path.join(os.path.dirname(path), "debug_" + os.path.basename(path))
DebugPath(path) == <<path[1], "/", "debug_">> \o SubSeq(path, 3, Len(path))

\* save_json(data, filepath): nothing is written, and the error is only
\* logged, when the file cannot be opened for writing
save_json(fs, data, filepath, io) ==
    IF io = "unwritable" THEN fs ELSE WriteFile(fs, filepath, JsonDump(data, 0))

\* the debug file of robust_json_parse lies beside filepath
Loaded(files, filepath, r) ==
    [val |-> r.val,
     fs |-> IF r.debug_written THEN WriteFile(files, DebugPath(filepath), r.debug) ELSE files]

\* load_json_file(filepath): the value returned and the filesystem left
load_json_file(files, filepath, io) ==
    IF ~Exists(files, filepath) THEN [val |-> PyNone, fs |-> files]
    ELSE IF io = "unreadable" THEN [val |-> PyNone, fs |-> files]
    ELSE Loaded(files, filepath, robust_json_parse(files[filepath], TRUE, io # "unwritable"))

\* ------------------------------------------------------------------------
\* What an adapter call does
\* ------------------------------------------------------------------------

\* ret: the value returned (PyNone when an exception leaves the adapter);
\* exc: the exception that leaves the adapter, "none" when it returns;
\* fs: the filesystem afterwards; spawned: subprocess.run was called;
\* http: the number of HTTP requests sent
Returns(ret, fs, spawned, http) ==
    [ret |-> ret, exc |-> "none", fs |-> fs, spawned |-> spawned, http |-> http]

Raises(exc, fs, spawned, http) ==
    [ret |-> PyNone, exc |-> exc, fs |-> fs, spawned |-> spawned, http |-> http]

\* the filesystem after the external tool ran: a tool that started leaves
\* its declared output file when the environment says it wrote one
ToolRun(fs, e, output_file) ==
    IF e.start = "ok" /\ e.outfile_present
    THEN WriteFile(fs, output_file, e.outfile) ELSE fs

\* the descriptor the process-backed adapters return on a dry run
DryRunCommand(command, output_file) ==
    PyDict(<< <<K("dry_run"), PyBool(TRUE)>>,
              <<K("command"), PyStr(command)>>,
              <<K("output_file"), PyStr(output_file)>> >>)

\* the descriptor the API-backed adapters return on a dry run
DryRunApi(target_text, api, output_file) ==
    PyDict(<< <<K("dry_run"), PyBool(TRUE)>>,
              <<K("target"), PyStr(target_text)>>,
              <<K("api"), S(api)>>,
              <<K("output_file"), PyStr(output_file)>> >>)

\* ------------------------------------------------------------------------
\* passive_recon.py
\* ------------------------------------------------------------------------

run_whatweb(target, output_dir, dry_run, fs, e) ==
    LET output_file == Join(output_dir, "whatweb.json")
        command == <<"whatweb --no-errors -a 3 --log-json=">> \o output_file
                   \o <<SP>> \o TargetText(target)
        ran == ToolRun(fs, e, output_file)
        loaded == load_json_file(ran, output_file, e.io)
    IN  IF dry_run THEN Returns(DryRunCommand(command, output_file), fs, FALSE, 0)
        \* FileNotFoundError is caught by `except Exception`
        ELSE IF e.start = "missing" THEN Returns(PyNone, fs, TRUE, 0)
        \* check=True: CalledProcessError
        ELSE IF e.rc # 0 THEN Returns(PyNone, ran, TRUE, 0)
        ELSE IF ~Exists(ran, output_file) THEN Returns(PyNone, ran, TRUE, 0)
        ELSE IF Truthy(loaded.val) THEN Returns(loaded.val, loaded.fs, TRUE, 0)
        ELSE Returns(PyNone, loaded.fs, TRUE, 0)

\* the three lists run_theharvester extracts from a parsed document
HarvesterResults(elems) ==
    << <<K("emails"), PyList(FindAllText(elems, 2, "email"))>>,
       <<K("hosts"), PyList(FindAllText(elems, 2, "host"))>>,
       <<K("vhosts"), PyList(FindAllText(elems, 2, "vhost"))>> >>

\* the repair of lines 117-130: the declaration is prepended when the text
\* does not start with one, then the whole text is wrapped in a root element
\* when it holds no <theHarvester> tag
RepairXml(content) ==
    LET with_decl == IF Len(content) > 0 /\ content[1] = XmlDecl
                     THEN content ELSE <<XmlDecl, NL>> \o content
    IN  IF \E i \in 1..Len(with_decl) : with_decl[i] = "<theHarvester>"
        THEN with_decl
        ELSE <<"<theHarvester>", NL>> \o with_decl \o <<NL, "</theHarvester>">>

run_theharvester(target, output_dir, dry_run, fs, e) ==
    LET domain == extract_domain(target)
        output_file == Join(output_dir, "theharvester.xml")
        json_output_file == Join(output_dir, "theharvester.json")
        command == <<"theHarvester -d ">> \o domain \o <<" -b all -f ">> \o output_file
        ran == ToolRun(fs, e, output_file)
        \* lines 99-106: the stdout is saved when the tool left no file
        have == IF Exists(ran, output_file) THEN ran
                ELSE WriteFile(ran, output_file, e.stdout)
        strict == XmlParse(have[output_file])
        repaired == XmlParse(RepairXml(have[output_file]))
        root == IF strict.ok THEN strict ELSE repaired
        results == PyDict(HarvesterResults(root.elems))
        minimal == PyDict(<< <<K("emails"), PyList(<<>>)>>,
                             <<K("hosts"), PyList(<<>>)>>,
                             <<K("vhosts"), PyList(<<>>)>>,
                             <<K("error"), S("parse error")>> >>)
    IN  IF dry_run THEN Returns(DryRunCommand(command, output_file), fs, FALSE, 0)
        \* the outer try catches CalledProcessError only
        ELSE IF e.start = "missing" THEN Raises("FileNotFoundError", fs, TRUE, 0)
        ELSE IF e.rc # 0 THEN Returns(PyNone, ran, TRUE, 0)
        ELSE IF ~Exists(ran, output_file) /\ e.io = "unwritable"
             THEN Raises("PermissionError", ran, TRUE, 0)
        \* ET.parse raises PermissionError, caught by the inner `except Exception`
        ELSE IF e.io = "unreadable" \/ ~root.ok
             THEN Returns(minimal, save_json(have, minimal, json_output_file, e.io), TRUE, 0)
        ELSE Returns(results, save_json(have, results, json_output_file, e.io), TRUE, 0)

\* ------------------------------------------------------------------------
\* Regular-expression extraction.  A line of a tool's report is one atom of
\* text; each table maps the lines its regular expression matches to what
\* the adapter builds from the captured groups.
\* ------------------------------------------------------------------------

RECURSIVE FindAll(_, _, _)
\* [table[line] for each line, in order, that the expression matches]
FindAll(text, i, table) ==
    IF i > Len(text) THEN <<>>
    ELSE IF text[i] \in DOMAIN table
         THEN <<table[text[i]]>> \o FindAll(text, i + 1, table)
         ELSE FindAll(text, i + 1, table)

RECURSIVE ToDict(_, _, _)
\* a dict filled item by item: a repeated key takes the later value
ToDict(items, i, acc) ==
    IF i > Len(items) THEN acc
    ELSE ToDict(items, i + 1, DictPut(acc, items[i][1], items[i][2]))

\* dns_recon.py line 63: r'NS: (.*?)$'
NsLines == [line \in {"NS: ns1.example.com"} |-> S("ns1.example.com")]

\* dns_recon.py line 68: r'MX: (.*?) (.*?)$'
MxLines ==
    [line \in {"MX: 10 mail.example.com"} |->
        PyDict(<< <<K("host"), S("mail.example.com")>>, <<K("priority"), S("10")>> >>)]

\* dns_recon.py line 76: the A records
HostLines ==
    [line \in {"www.example.com 300 IN A 192.0.2.1", "cdn.example.net 300 IN A 192.0.2.2"} |->
        IF line = "www.example.com 300 IN A 192.0.2.1"
        THEN PyDict(<< <<K("hostname"), S("www.example.com")>>, <<K("ip"), S("192.0.2.1")>> >>)
        ELSE PyDict(<< <<K("hostname"), S("cdn.example.net")>>, <<K("ip"), S("192.0.2.2")>> >>)]

\* dns_recon.py line 87: hostname.endswith("." + domain)
SubdomainLines(domain) ==
    [line \in {l \in DOMAIN HostLines :
                 domain = <<"example.com">> /\ l = "www.example.com 300 IN A 192.0.2.1"} |->
        HostLines[line]]

\* ssl_recon.py line 72: protocol and (status == 'enabled')
ProtocolLines ==
    [line \in {"TLSv1.2 enabled", "SSLv3 disabled", "TLSv1.2 disabled"} |->
        CASE line = "TLSv1.2 enabled" -> <<K("TLSv1.2"), PyBool(TRUE)>>
          [] line = "SSLv3 disabled" -> <<K("SSLv3"), PyBool(FALSE)>>
          [] line = "TLSv1.2 disabled" -> <<K("TLSv1.2"), PyBool(FALSE)>>]

\* ssl_recon.py line 80: the accepted ciphers
CipherLines ==
    [line \in {"Accepted TLSv1.2 256 bits AES256-SHA DHE"} |->
        PyDict(<< <<K("preference"), S("Accepted")>>, <<K("protocol"), S("TLSv1.2")>>,
                  <<K("bits"), S("256")>>, <<K("cipher"), S("AES256-SHA")>>,
                  <<K("extra"), S("DHE")>> >>)]

\* ssl_recon.py lines 96-117: the certificate fields, each the first match
SubjectLines == [line \in {"Subject: example.com"} |-> <<K("subject"), S("example.com")>>]

IssuerLines == [line \in {"Issuer: R3"} |-> <<K("issuer"), S("R3")>>]

NotBeforeLines ==
    [line \in {"Not valid before: Jan 1 2024"} |-> <<K("not_before"), S("Jan 1 2024")>>]

NotAfterLines ==
    [line \in {"Not valid after: Jan 1 2025"} |-> <<K("not_after"), S("Jan 1 2025")>>]

RsaLines ==
    [line \in {"RSA Key Strength: 2048"} |-> <<K("rsa_key_strength"), S("2048")>>]

\* re.search: the item of the first matching line, if any
FirstMatch(text, table) ==
    LET all == FindAll(text, 1, table)
    IN  IF Len(all) > 0 THEN <<all[1]>> ELSE <<>>

CertInfo(text) ==
    FirstMatch(text, SubjectLines) \o FirstMatch(text, IssuerLines)
    \o FirstMatch(text, NotBeforeLines) \o FirstMatch(text, NotAfterLines)
    \o FirstMatch(text, RsaLines)

\* wafw00f_scan.py lines 60-63: line.split('is behind')[-1].strip()
BehindLines ==
    [line \in {"example.com is behind Cloudflare"} |-> S("Cloudflare")]

\* process.stderr if process.returncode != 0 else None
StderrOrNone(e) == IF e.rc # 0 THEN PyStr(e.stderr) ELSE PyNone

\* ------------------------------------------------------------------------
\* dns_recon.py
\* ------------------------------------------------------------------------

run_dnsenum(target, output_dir, dry_run, fs, e) ==
    LET domain == extract_domain(target)
        json_output_file == Join(output_dir, "dnsenum.json")
        text_output_file == Join(output_dir, "dnsenum.txt")
        command == <<"dnsenum --noreverse --nocolor ">> \o domain
        saved == WriteFile(fs, text_output_file, e.stdout)
        results ==
            PyDict(<< <<K("nameservers"), PyList(FindAll(e.stdout, 1, NsLines))>>,
                      <<K("mx_records"), PyList(FindAll(e.stdout, 1, MxLines))>>,
                      <<K("subdomains"), PyList(FindAll(e.stdout, 1, SubdomainLines(domain)))>>,
                      <<K("hosts"), PyList(FindAll(e.stdout, 1, HostLines))>>,
                      <<K("raw_output"), PyStr(e.stdout)>>,
                      <<K("error"), StderrOrNone(e)>> >>)
        failed(msg) ==
            PyDict(<< <<K("nameservers"), PyList(<<>>)>>,
                      <<K("mx_records"), PyList(<<>>)>>,
                      <<K("subdomains"), PyList(<<>>)>>,
                      <<K("hosts"), PyList(<<>>)>>,
                      <<K("error"), S(msg)>> >>)
    IN  IF dry_run THEN Returns(DryRunCommand(command, json_output_file), fs, FALSE, 0)
        ELSE IF e.start = "missing"
             THEN Returns(failed("No such file or directory"), fs, TRUE, 0)
        ELSE IF e.io = "unwritable"
             THEN Returns(failed("Permission denied"), fs, TRUE, 0)
        ELSE Returns(results, save_json(saved, results, json_output_file, e.io), TRUE, 0)

\* ------------------------------------------------------------------------
\* ssl_recon.py: run_sslscan
\* ------------------------------------------------------------------------

run_sslscan(target, output_dir, dry_run, fs, e) ==
    LET output_file == Join(output_dir, "sslscan.json")
        text_output_file == Join(output_dir, "sslscan.txt")
        domain == extract_domain(target)
        is_https == normalize_url(target).scheme = "https://"
        command == <<"sslscan --no-colour --json=">> \o output_file \o <<SP>> \o domain
        ran == ToolRun(fs, e, output_file)
        saved == WriteFile(ran, text_output_file, e.stdout)
        head == << <<K("target"), PyStr(domain)>>, <<K("is_https"), PyBool(is_https)>> >>
        from_stdout ==
            PyDict(head \o
                   << <<K("raw_output"), PyStr(e.stdout)>>,
                      <<K("error"), StderrOrNone(e)>>,
                      <<K("protocols"),
                        PyDict(ToDict(FindAll(e.stdout, 1, ProtocolLines), 1, <<>>))>>,
                      <<K("ciphers"), PyList(FindAll(e.stdout, 1, CipherLines))>>,
                      <<K("certificate"), PyDict(CertInfo(e.stdout))>> >>)
        loaded == load_json_file(saved, output_file, e.io)
        basic ==
            PyDict(head \o
                   << <<K("raw_output"), PyStr(e.stdout)>>,
                      <<K("error"), S("Failed to parse JSON output")>> >>)
        crashed(msg) == PyDict(head \o << <<K("error"), S(msg)>> >>)
    IN  IF dry_run THEN Returns(DryRunCommand(command, output_file), fs, FALSE, 0)
        ELSE IF e.start = "missing"
             THEN Returns(crashed("No such file or directory"),
                          save_json(fs, crashed("No such file or directory"), output_file, e.io),
                          TRUE, 0)
        ELSE IF e.io = "unwritable"
             THEN Returns(crashed("Permission denied"), ran, TRUE, 0)
        ELSE IF ~Exists(saved, output_file) \/ Len(saved[output_file]) = 0
             THEN Returns(from_stdout, save_json(saved, from_stdout, output_file, e.io), TRUE, 0)
        ELSE IF Truthy(loaded.val) THEN Returns(loaded.val, loaded.fs, TRUE, 0)
        ELSE Returns(basic, save_json(loaded.fs, basic, output_file, e.io), TRUE, 0)

\* ------------------------------------------------------------------------
\* wafw00f_scan.py
\* ------------------------------------------------------------------------

run_wafw00f(target, output_dir, dry_run, fs, e) ==
    LET url == normalize_url(target)
        output_file == Join(output_dir, "wafw00f.json")
        parsed_output == Join(output_dir, "wafw00f_parsed.json")
        command == <<"wafw00f ">> \o TargetText(url) \o <<" -a -o ">> \o output_file
                   \o <<" -f json">>
        ran == ToolRun(fs, e, output_file)
        wafw00f_data == JsonLoads(ran[output_file])
        result == PyDict(<< <<K("url"), PyStr(TargetText(url))>>,
                            <<K("detected_wafs"), PyList(FindAll(e.stdout, 1, BehindLines))>> >>)
    IN  IF dry_run THEN Returns(DryRunCommand(command, output_file), fs, FALSE, 0)
        ELSE IF e.start = "missing" THEN Returns(PyNone, fs, TRUE, 0)
        \* check=True: CalledProcessError
        ELSE IF e.rc # 0 THEN Returns(PyNone, ran, TRUE, 0)
        \* open() raises FileNotFoundError or PermissionError, caught by the
        \* outer `except Exception`
        ELSE IF ~Exists(ran, output_file) \/ e.io = "unreadable"
             THEN Returns(PyNone, ran, TRUE, 0)
        ELSE IF wafw00f_data.ok THEN Returns(wafw00f_data.val, ran, TRUE, 0)
        \* the handler of JSONDecodeError cannot rewrite the file
        ELSE IF e.io = "unwritable" THEN Returns(PyNone, ran, TRUE, 0)
        ELSE Returns(result,
                     WriteFile(WriteFile(ran, output_file, e.stdout),
                               parsed_output, JsonDump(result, 0)),
                     TRUE, 0)

\* ------------------------------------------------------------------------
\* web_recon.py
\* ------------------------------------------------------------------------

\* what page.evaluate and page.cookies return: e.page is "plain" for a page
\* without scripts, forms, links, cookies and stored items and "rich" for
\* one with them
PageList(e, item) == IF e.page = "rich" THEN PyList(<<S(item)>>) ELSE PyList(<<>>)

\* the awaits of run_browser_recon in the order the coroutine reaches them
\* (web_recon.py lines 43, 44, 47, 50, 53, 58, 75, 80, 83, 86, 89, 92, 140),
\* each named after the local it assigns or the call it makes
BrowserAwaits ==
    <<"launch", "newPage", "setUserAgent", "goto", "js_files", "forms", "links", "screenshot",
      "cookies", "local_storage", "session_storage", "frameworks", "close">>

AwaitIndex(name) == CHOOSE i \in 1..Len(BrowserAwaits) : BrowserAwaits[i] = name

\* what the page holds for each list the coroutine reads
PageItem(name) ==
    CASE name = "js_files" -> "app.js"
      [] name = "forms" -> "form"
      [] name = "links" -> "link"
      [] name = "cookies" -> "cookie"
      [] name = "frameworks" -> "jQuery"
      [] OTHER -> "item"

\* the descriptor run_browser_recon returns on a dry run (lines 21-41)
browser_dry_run(target, output_dir) ==
    PyDict(<< <<K("dry_run"), PyBool(TRUE)>>,
              <<K("target"), PyStr(TargetText(normalize_url(target)))>>,
              <<K("tool"), S("Browser Reconnaissance")>>,
              <<K("actions"),
                PyList(<<S("Extract JavaScript files"), S("Extract form information"),
                         S("Extract links"), S("Take screenshot"), S("Get cookies"),
                         S("Get local/session storage"), S("Detect frameworks")>>)>>,
              <<K("output_file"), PyStr(Join(output_dir, "browser_recon.json"))>>,
              <<K("screenshot"), PyStr(Join(output_dir, "screenshot.png"))>> >>)

\* run_browser_recon from the await `at` it is suspended in up to its next
\* await, or to the return of the wrapper browser_recon, when the awaited
\* call answers as e says: it raises when e.fails names it (launch also when
\* there is no browser to start).  `done` tells that browser_recon has
\* returned out.ret; otherwise `at` is the next await, `locals` what the
\* coroutine keeps (the lists read so far; at "close" the value it is about
\* to return) and out.fs the files it has written.
browser_await(output_dir, fs, at, locals, e) ==
    LET output_file == Join(output_dir, "browser_recon.json")
        screenshot_path == Join(output_dir, "screenshot.png")
        raised == e.fails = at \/ (at = "launch" /\ e.start = "missing")
        on(files, next, kept) ==
            [done |-> FALSE, at |-> next, locals |-> kept, out |-> Returns(PyNone, files, TRUE, 0)]
        go(kept) == on(fs, BrowserAwaits[AwaitIndex(at) + 1], kept)
        \* an exception inside the try block (lines 136-138): None is to be
        \* returned once the finally clause has closed the browser
        caught == on(fs, "close", PyNone)
        \* the wrapper returns: the value of the coroutine, or None for an
        \* exception that left it (lines 149-151)
        over(ret) ==
            [done |-> TRUE, at |-> "idle", locals |-> PyNone, out |-> Returns(ret, fs, TRUE, 0)]
        read == PyDict(locals.v \o << <<K(at), PageList(e, PageItem(at))>> >>)
        browser_data == PyDict(read.v \o << <<K("screenshot"), PyStr(screenshot_path)>> >>)
    IN  CASE at \in {"launch", "newPage", "setUserAgent"} ->
                \* outside the try block: nothing closes a browser that was launched
                IF raised THEN over(PyNone) ELSE go(locals)
          [] at = "goto" -> IF raised THEN caught ELSE go(locals)
          [] at \in {"js_files", "forms", "links", "cookies", "local_storage",
                     "session_storage"} ->
                IF raised THEN caught ELSE go(read)
          [] at = "screenshot" ->
                IF raised \/ e.io = "unwritable" THEN caught
                ELSE on(WriteFile(fs, screenshot_path, <<"PNG">>), "cookies", locals)
          [] at = "frameworks" ->
                \* lines 118-134: browser_data is built and written, `return
                \* browser_data` then runs the finally clause
                IF raised \/ e.io = "unwritable" THEN caught
                ELSE on(WriteFile(fs, output_file, JsonDump(browser_data, 0)), "close",
                        browser_data)
          [] at = "close" ->
                \* an exception of browser.close() replaces the value returned
                IF raised THEN over(PyNone) ELSE over(locals)

RECURSIVE browser_from(_, _, _, _, _)
\* the coroutine run from the await `at` to the return of the wrapper
browser_from(output_dir, fs, at, locals, e) ==
    LET step == browser_await(output_dir, fs, at, locals, e)
    IN  IF step.done THEN step.out
        ELSE browser_from(output_dir, step.out.fs, step.at, step.locals, e)

\* browser_recon(target, output_dir, dry_run) from call to return
browser_recon(target, output_dir, dry_run, fs, e) ==
    IF dry_run THEN Returns(browser_dry_run(target, output_dir), fs, FALSE, 0)
    ELSE browser_from(output_dir, fs, "launch", PyDict(<<>>), e)

\* ------------------------------------------------------------------------
\* security_headers.py
\* ------------------------------------------------------------------------

SecurityHeaderNames ==
    <<"Strict-Transport-Security", "Content-Security-Policy", "X-Frame-Options",
      "X-Content-Type-Options", "Referrer-Policy", "Permissions-Policy",
      "X-XSS-Protection">>

\* str.lower() on the words the messages and the header names are made of
Lower(tok) ==
    CASE tok = "XSS" -> "xss"
      [] tok = "Outdated" -> "outdated"
      [] tok = "Header" -> "header"
      [] tok \in {"Strict-Transport-Security", "STRICT-TRANSPORT-SECURITY"} ->
            "strict-transport-security"
      [] tok = "Content-Security-Policy" -> "content-security-policy"
      [] tok \in {"X-Frame-Options", "X-FRAME-OPTIONS"} -> "x-frame-options"
      [] tok = "X-Content-Type-Options" -> "x-content-type-options"
      [] tok = "Referrer-Policy" -> "referrer-policy"
      [] tok = "Permissions-Policy" -> "permissions-policy"
      [] tok = "X-XSS-Protection" -> "x-xss-protection"
      [] OTHER -> tok

\* response.headers.get(name, default): response.headers is requests'
\* CaseInsensitiveDict, which finds a header under any spelling of its name
\* and keeps the value set last
HeaderGet(headers, name, default) ==
    LET hits == {i \in 1..Len(headers.v) : Lower(headers.v[i][1][1]) = Lower(name)}
    IN  IF hits = {} THEN default ELSE headers.v[Max(hits)][2]

\* response.headers.get(name, 'Not Set') for each of the seven names;
\* r.headers is dict(response.headers), the headers as the server spelled
\* them
SecurityHeaders(r) ==
    [i \in 1..Len(SecurityHeaderNames) |->
        <<K(SecurityHeaderNames[i]), HeaderGet(r.headers, SecurityHeaderNames[i], S("Not Set"))>>]

run_securityheaders(target, output_dir, dry_run, fs, r, io) ==
    LET url == normalize_url(target)
        output_file == Join(output_dir, "securityheaders.json")
        result ==
            PyDict(<< <<K("url"), PyStr(TargetText(url))>>,
                      <<K("status_code"), PyInt(r.status_code)>>,
                      <<K("headers"), r.headers>>,
                      <<K("content_length"), PyInt(r.length)>>,
                      <<K("security_headers"), PyDict(SecurityHeaders(r))>> >>)
    IN  IF dry_run
        THEN Returns(DryRunApi(TargetText(url), "SecurityHeaders.io", output_file), fs, FALSE, 0)
        \* requests.get raises
        ELSE IF r.kind = "error" THEN Returns(PyNone, fs, FALSE, 1)
        ELSE IF io = "unwritable" THEN Returns(PyNone, fs, FALSE, 1)
        ELSE Returns(result, WriteFile(fs, output_file, JsonDump(result, 0)), FALSE, 1)

\* ------------------------------------------------------------------------
\* vuln_scan/nikto_scanner.py
\* ------------------------------------------------------------------------

LowerText(s) == [i \in 1..Len(s) |-> Lower(s[i])]

\* keyword in message
Contains(message, keyword) ==
    \E i \in 0..(Len(message) - Len(keyword)) :
        SubSeq(message, i + 1, i + Len(keyword)) = keyword

high_keywords ==
    {<<"remote", SP, "code", SP, "execution">>, <<"rce">>, <<"sql", SP, "injection">>,
     <<"command", SP, "injection">>, <<"arbitrary", SP, "code">>, <<"xss">>,
     <<"cross", SP, "site", SP, "scripting">>, <<"csrf">>, <<"directory", SP, "traversal">>,
     <<"path", SP, "traversal">>, <<"buffer", SP, "overflow">>,
     <<"privilege", SP, "escalation">>, <<"authentication", SP, "bypass">>}

medium_keywords ==
    {<<"information", SP, "disclosure">>, <<"information", SP, "leakage">>,
     <<"default", SP, "password">>, <<"default", SP, "credential">>, <<"misconfiguration">>,
     <<"sensitive", SP, "data">>, <<"weak", SP, "password">>,
     <<"insecure", SP, "configuration">>, <<"outdated">>, <<"deprecated">>}

low_keywords ==
    {<<"version", SP, "disclosure">>, <<"server", SP, "type">>, <<"banner">>, <<"header">>,
     <<"cookie">>, <<"missing", SP, "header">>, <<"clickjacking">>, <<"cacheable">>,
     <<"autocomplete">>}

\* estimate_severity(vulnerability): "raise" stands for the AttributeError a
\* vulnerability that is no dict, or a message that is no string, causes
estimate_severity(vulnerability) ==
    LET raw == GetOr(vulnerability, K("message"), PyStr(<<>>))
        message == LowerText(raw.v)
    IN  IF ~IsDict(vulnerability) THEN "raise"
        ELSE IF raw.t # "str" THEN "raise"
        ELSE IF \E k \in high_keywords : Contains(message, k) THEN "high"
        ELSE IF \E k \in medium_keywords : Contains(message, k) THEN "medium"
        ELSE IF \E k \in low_keywords : Contains(message, k) THEN "low"
        ELSE "info"

\* f"{duration:.1f} seconds"
DurationText(duration) ==
    IntText(duration.v \div 10) \o <<".">> \o IntText(duration.v % 10) \o <<" seconds">>

\* datetime.now() in the two formats the scanner uses
FileStamp(now) == IF now = 0 THEN "20240101_000000" ELSE "20240101_000001"
LogStamp(now) == IF now = 0 THEN "2024-01-01 00:00:00" ELSE "2024-01-01 00:00:01"

\* "key in x" for the kinds of value json can give: a dict looks among its
\* keys, a list among its elements, a string for a substring, and anything
\* else raises TypeError
InRaises(x) == x.t \in {"null", "bool", "num", "float"}
In(key, x) ==
    CASE x.t = "obj" -> HasKey(x, key)
      [] x.t = "arr" -> \E i \in 1..Len(x.v) : x.v[i] = PyStr(key)
      [] x.t = "str" -> Contains(x.v, key)
      [] OTHER -> FALSE

\* the elements the loop "for vuln in x" visits; iterating a dict gives its
\* keys and iterating a string its characters, as strings
IterRaises(x) == x.t \in {"null", "bool", "num", "float"}
Iterate(x) ==
    CASE x.t = "arr" -> x.v
      [] x.t = "obj" -> [i \in 1..Len(x.v) |-> PyStr(x.v[i][1])]
      [] x.t = "str" -> [i \in 1..Len(x.v) |-> PyStr(<<x.v[i]>>)]
      [] OTHER -> <<>>

\* a count that looks at the first vulnerability only
CountFirstOnly(vulns, i, severity) ==
    IF i > 0 /\ estimate_severity(vulns[1]) = severity THEN 1 ELSE 0

RECURSIVE CountSeverity(_, _, _)
\* how many of the first i vulnerabilities are estimated as severity
CountSeverity(vulns, i, severity) ==
    IF i = 0 THEN 0
    ELSE CountSeverity(vulns, i - 1, severity)
         + (IF estimate_severity(vulns[i]) = severity THEN 1 ELSE 0)

\* the finding appended for one vulnerability
Finding(vuln) ==
    PyDict(<< <<K("id"), GetOr(vuln, K("id"), S("unknown"))>>,
              <<K("severity"), S(estimate_severity(vuln))>>,
              <<K("method"), GetOr(vuln, K("method"), PyStr(<<>>))>>,
              <<K("url"), GetOr(vuln, K("url"), PyStr(<<>>))>>,
              <<K("message"), GetOr(vuln, K("message"), PyStr(<<>>))>>,
              <<K("osvdb"), GetOr(vuln, K("osvdb"), PyStr(<<>>))>> >>)

create_nikto_summary(nikto_data, target, scan_type, duration, now) ==
    LET has_details == In(K("details"), nikto_data)
        details == Get(nikto_data, K("details"))
        has_host == In(K("host"), details)
        has_stats == In(K("stats"), details)
        has_vulns == In(K("vulnerabilities"), nikto_data)
        listed == Get(nikto_data, K("vulnerabilities"))
        vulns == IF has_vulns THEN Iterate(listed) ELSE <<>>
        \* the statements that raise, in the order they are reached
        raised ==
            \/ InRaises(nikto_data)
            \/ has_details /\ ~IsDict(nikto_data)
            \/ has_details /\ InRaises(details)
            \/ has_details /\ (has_host \/ has_stats) /\ ~IsDict(details)
            \/ has_vulns /\ ~IsDict(nikto_data)
            \/ has_vulns /\ IterRaises(listed)
            \/ \E i \in 1..Len(vulns) : estimate_severity(vulns[i]) = "raise"
        count(severity) == CountSeverity(vulns, Len(vulns), severity)
        head ==
            << <<K("target"), PyStr(TargetText(target))>>,
               <<K("scan_type"), S(scan_type)>>,
               <<K("duration"), PyStr(DurationText(duration))>>,
               <<K("timestamp"), S(LogStamp(now))>> >>
        summary ==
            head
            \o << <<K("vulnerabilities"),
                    PyDict(<< <<K("high"), PyInt(count("high"))>>,
                              <<K("medium"), PyInt(count("medium"))>>,
                              <<K("low"), PyInt(count("low"))>>,
                              <<K("info"), PyInt(count("info"))>> >>)>>,
                  <<K("findings"), PyList([i \in 1..Len(vulns) |-> Finding(vulns[i])])>> >>
            \o (IF has_details /\ has_host
                THEN << <<K("host_details"), Get(details, K("host"))>> >> ELSE <<>>)
            \o (IF has_details /\ has_stats
                THEN << <<K("statistics"), Get(details, K("stats"))>> >> ELSE <<>>)
            \o << <<K("total_findings"),
                    PyInt(count("high") + count("medium") + count("low") + count("info"))>> >>
    IN  IF raised
        THEN PyDict(<< <<K("error"), S("Failed to create summary")>> >> \o head)
        ELSE PyDict(summary)

\* the options run_nikto appends for a scan type
NiktoOptions(scan_type, custom_options) ==
    IF scan_type = "quick" THEN <<" -Tuning 23bc -maxtime 600">>
    ELSE IF scan_type = "thorough" THEN <<" -Tuning x -maxtime 3600">>
    ELSE IF scan_type = "custom" /\ custom_options # <<>> THEN <<" ">> \o custom_options
    ELSE <<" -maxtime 1800">>

\* run_nikto written as run_whatweb is: None after a non-zero exit
run_nikto_or_none(target, output_dir, scan_type, custom_options, dry_run, fs, e) ==
    Returns(IF e.rc # 0 THEN PyNone
            ELSE PyDict(<< <<K("error"), S("Nikto scan failed")>>,
                           <<K("scan_type"), S(scan_type)>> >>),
            MkDir(fs, output_dir), ~dry_run, 0)

\* custom_options is <<>> for None or an empty list; e.now is the clock at
\* the call, e.later the clock when the summary is made and e.duration the
\* time the tool took
run_nikto(target, output_dir, scan_type, custom_options, dry_run, fs, e) ==
    LET url == normalize_url(target)
        made == MkDir(fs, output_dir)
        base == <<"_", scan_type, "_", FileStamp(e.now)>>
        json_output == <<output_dir, "/", "nikto">> \o base \o <<".json">>
        txt_output == <<output_dir, "/", "nikto">> \o base \o <<".txt">>
        summary_output == <<output_dir, "/", "nikto_summary">> \o base \o <<".json">>
        command == <<"nikto -h ">> \o TargetText(url) \o <<" -o ">> \o json_output
                   \o <<" -Format json">> \o NiktoOptions(scan_type, custom_options)
        duration == PyFloat(e.duration)
        ran == ToolRun(made, e, json_output)
        debug_text == <<"Command: ">> \o command \o <<NL, "Return code: ">> \o IntText(e.rc)
                      \o <<NL, "Stderr: ">> \o e.stderr \o <<NL, "Stdout: ">> \o e.stdout
                      \o <<NL>>
        noted == IF e.rc # 0 THEN WriteFile(ran, txt_output, debug_text) ELSE ran
        has_file == Exists(noted, json_output) /\ Len(noted[json_output]) > 0
        \* the file to parse: the tool's, or the captured stdout saved in its place
        staged == IF has_file THEN noted ELSE WriteFile(noted, json_output, e.stdout)
        loaded == load_json_file(staged, json_output, e.io)
        nikto_data == loaded.val
        summary == create_nikto_summary(nikto_data, url, scan_type, duration, e.later)
        success ==
            PyDict(<< <<K("raw_results"), nikto_data>>,
                      <<K("summary"), summary>>,
                      <<K("output_file"), PyStr(json_output)>>,
                      <<K("summary_file"), PyStr(summary_output)>>,
                      <<K("scan_type"), S(scan_type)>>,
                      <<K("duration"), duration>> >>)
        failed ==
            PyDict(<< <<K("error"),
                        PyStr(<<"Nikto scan failed or produced invalid output (exit code: ">>
                              \o IntText(e.rc) \o <<")">>)>>,
                      <<K("debug_file"), PyStr(txt_output)>>,
                      <<K("scan_type"), S(scan_type)>>,
                      <<K("duration"), duration>> >>)
        crashed(msg) ==
            PyDict(<< <<K("error"), S(msg)>>, <<K("scan_type"), S(scan_type)>> >>)
    IN  IF dry_run
        THEN Returns(PyDict(<< <<K("dry_run"), PyBool(TRUE)>>,
                               <<K("command"), PyStr(command)>>,
                               <<K("output_file"), PyStr(json_output)>>,
                               <<K("scan_type"), S(scan_type)>> >>), made, FALSE, 0)
        ELSE IF e.start = "missing"
        THEN Returns(crashed("No such file or directory: 'nikto'"), made, TRUE, 0)
        \* the debug dump cannot be written
        ELSE IF e.rc # 0 /\ e.io = "unwritable"
        THEN Returns(crashed("Permission denied"), ran, TRUE, 0)
        \* stdout cannot be saved in place of the missing file
        ELSE IF ~has_file /\ e.io = "unwritable"
        THEN Returns(failed, noted, TRUE, 0)
        ELSE IF Truthy(nikto_data)
        THEN Returns(success, save_json(loaded.fs, summary, summary_output, e.io), TRUE, 0)
        ELSE Returns(failed, loaded.fs, TRUE, 0)

\* ------------------------------------------------------------------------
\* kast/recon/http_observatory.py and kast/vuln/nikto_scanner.py
\* ------------------------------------------------------------------------

\* get_config() with neither config.yaml nor config.yaml.example present
log_directory == "logs"
output_directory == "output"

\* target_url.replace('://', '_').replace('/', '_')
UrlFileText(target) ==
    IF target.scheme = "" THEN <<target.host>>
    ELSE <<(IF target.scheme = "https://" THEN "https" ELSE "http"), "_", target.host>>

\* now.strftime("%y%m%d-%H%M%S")
KastStamp(now) == IF now = 0 THEN "240101-000000" ELSE "240101-000001"

\* setup_logger(target_domain): the log directory is made, then the log file
\* is opened; the target's text is part of the file name, so a target with
\* "://" in it names a file in a directory that does not exist
kast_setup_logger(prefix, target, fs, now) ==
    LET made == MkDir(fs, log_directory)
        log_file_path == <<log_directory, "/", prefix, "-">> \o TargetText(target)
                         \o <<"-", KastStamp(now), ".log">>
    IN  IF HasScheme(target) THEN [ok |-> FALSE, fs |-> made]
        ELSE [ok |-> TRUE, fs |-> WriteFile(made, log_file_path, <<"log">>)]

\* the body the two scan functions share: prefix names the log, stem the
\* output file, command the tool's command line
KastScan(prefix, stem, command, target, output_dir, dry_run, fs, e) ==
    LET logged == kast_setup_logger(prefix, target, fs, e.now)
        made == MkDir(logged.fs, output_dir)
        output_file == <<output_dir, "/", stem>> \o UrlFileText(target) \o <<".json">>
        ran == ToolRun(made, e, output_file)
        loaded == JsonLoads(ran[output_file])
    IN  IF ~logged.ok THEN Raises("FileNotFoundError", logged.fs, FALSE, 0)
        ELSE IF dry_run THEN Returns(PyNone, made, FALSE, 0)
        \* FileNotFoundError: the command is not installed
        ELSE IF e.start = "missing" THEN Returns(PyNone, made, TRUE, 0)
        \* CalledProcessError
        ELSE IF e.rc # 0 THEN Returns(PyNone, ran, TRUE, 0)
        \* FileNotFoundError again: the tool left no output file
        ELSE IF ~Exists(ran, output_file) THEN Returns(PyNone, ran, TRUE, 0)
        ELSE IF e.io = "unreadable" THEN Returns(PyNone, ran, TRUE, 0)
        ELSE IF ~loaded.ok THEN Returns(PyNone, ran, TRUE, 0)
        ELSE Returns(loaded.val, ran, TRUE, 0)

\* kast.recon.http_observatory.scan
http_observatory_scan(target, output_dir, dry_run, fs, e) ==
    KastScan("http_observatory", "http_observatory_",
             <<"mdn-http-observatory-scan ">> \o TargetText(target),
             target, output_dir, dry_run, fs, e)

\* kast.vuln.nikto_scanner.scan; timeout is 0 for None
nikto_scan(target, output_dir, timeout, dry_run, fs, e) ==
    KastScan("nikto", "nikto_",
             <<"nikto -h ">> \o TargetText(target)
             \o (IF timeout # 0 THEN <<" -maxtime ">> \o IntText(timeout) ELSE <<>>),
             target, output_dir, dry_run, fs, e)

\* ------------------------------------------------------------------------
\* ssl_recon.py run_ssllabs and mozilla_observatory.py: one request at a time
\* ------------------------------------------------------------------------

\* what requests.get / requests.post gives: kind "error" is an exception of
\* the transport, kind "text" a body that response.json() cannot decode and
\* kind "json" a body that decodes to data
Reply(kind, data) == [kind |-> kind, data |-> data, io |-> "ok"]

\* run_ssllabs without its test of the status: whatever the reply holds is
\* saved and returned
ssllabs_reply_unchecked(output_dir, fs, reply, io) ==
    [loop |-> FALSE,
     out |-> Returns(reply.data, WriteFile(fs, Join(output_dir, "ssllabs.json"), <<"{}">>),
                     FALSE, 1)]

\* what run_ssllabs does with the reply to a request: `loop` tells that the
\* while condition holds and another request follows
ssllabs_reply(output_dir, fs, reply, io) ==
    LET output_file == Join(output_dir, "ssllabs.json")
        data == reply.data
        done(out) == [loop |-> FALSE, out |-> out]
    IN  IF reply.kind # "json" THEN done(Returns(PyNone, fs, FALSE, 1))
        \* data['status'] raises TypeError or KeyError
        ELSE IF ~IsDict(data) THEN done(Returns(PyNone, fs, FALSE, 1))
        ELSE IF ~HasKey(data, K("status")) THEN done(Returns(PyNone, fs, FALSE, 1))
        ELSE IF Get(data, K("status")) \notin {S("READY"), S("ERROR")}
        THEN [loop |-> TRUE, out |-> Returns(PyNone, fs, FALSE, 1)]
        ELSE IF Get(data, K("status")) = S("ERROR") THEN done(Returns(PyNone, fs, FALSE, 1))
        ELSE IF io = "unwritable" THEN done(Returns(PyNone, fs, FALSE, 1))
        ELSE done(Returns(data, WriteFile(fs, output_file, JsonDump(data, 0)), FALSE, 1))

\* the reply to the POST that starts a Mozilla Observatory scan: ok tells
\* that the adapter goes on to ask for the status
mozilla_submit(reply) ==
    LET data == reply.data
    IN  IF reply.kind # "json" THEN [ok |-> FALSE, scan_id |-> PyNone]
        \* 'error' in data
        ELSE IF InRaises(data) THEN [ok |-> FALSE, scan_id |-> PyNone]
        ELSE IF In(K("error"), data) THEN [ok |-> FALSE, scan_id |-> PyNone]
        \* data['scan_id']
        ELSE IF ~IsDict(data) THEN [ok |-> FALSE, scan_id |-> PyNone]
        ELSE IF ~HasKey(data, K("scan_id")) THEN [ok |-> FALSE, scan_id |-> PyNone]
        ELSE [ok |-> TRUE, scan_id |-> Get(data, K("scan_id"))]

\* the reply to a status request: "fetch" leaves the loop for the results,
\* "failed" returns None and "wait" sleeps and asks again
mozilla_status(reply) ==
    LET data == reply.data
    IN  IF reply.kind # "json" THEN "failed"
        \* data.get raises AttributeError
        ELSE IF ~IsDict(data) THEN "failed"
        ELSE IF GetOr(data, K("state"), PyNone) = S("FINISHED") THEN "fetch"
        ELSE IF GetOr(data, K("state"), PyNone) = S("FAILED") THEN "failed"
        ELSE "wait"

\* the reply to the request for the results of the scan whose status is data
mozilla_fetch(output_dir, fs, data, reply, io) ==
    LET output_file == Join(output_dir, "mozilla_observatory.json")
        full_results == PyDict(<< <<K("scan_info"), data>>,
                                  <<K("test_results"), reply.data>> >>)
    IN  IF reply.kind # "json" THEN Returns(PyNone, fs, FALSE, 1)
        ELSE IF io = "unwritable" THEN Returns(PyNone, fs, FALSE, 1)
        ELSE Returns(full_results, WriteFile(fs, output_file, JsonDump(full_results, 0)),
                     FALSE, 1)

\* ------------------------------------------------------------------------
\* The environment: what the tools, the remote services and the disk do
\* ------------------------------------------------------------------------

\* the requests and the seconds slept are counted up to these bounds and not
\* beyond (the counters are observers: the code keeps none)
MaxHttp == 4
MaxClock == 60

IoModes == {"ok", "unreadable", "unwritable"}

Env(start, rc, stdout, stderr, present, outfile, io, now, duration) ==
    [start |-> start, rc |-> rc, stdout |-> stdout, stderr |-> stderr,
     outfile_present |-> present, outfile |-> outfile, io |-> io,
     now |-> now, later |-> now, duration |-> duration, page |-> "plain", fails |-> "none"]

\* texts a tool that writes JSON can leave in its output file or on stdout
ValidJson == <<"[", "{", QUOTE, "x", QUOTE, ":", "1", "}", "]">>
NiktoJson ==
    <<"{", QUOTE, "vulnerabilities", QUOTE, ":", "[",
      "{", QUOTE, "id", QUOTE, ":", "1", ",", QUOTE, "message", QUOTE, ":",
      QUOTE, "XSS", SP, "found", QUOTE, "}", ",",
      "{", QUOTE, "message", QUOTE, ":", QUOTE, "Outdated", QUOTE, "}", "]", "}">>
JsonTexts ==
    {<<>>, <<"[", "]">>, <<"{", "}">>, <<"n", "u", "l", "l">>, ValidJson, NiktoJson,
     <<"x">>, <<"[", "1", ",">>, <<"x", "{", QUOTE, "x", QUOTE, ":", "1", "}">>}

\* texts theHarvester can leave
XmlTexts ==
    {<<>>,
     <<XmlDecl, "<theHarvester>", "<email>", "a@example.com", "</email>",
       "<host>", "www.example.com", "</host>", "</theHarvester>">>,
     <<"<email>", "a@example.com", "</email>">>,
     <<"<email>", "a@example.com", "</email>", "<host>", "www.example.com", "</host>">>,
     <<"a@example.com">>}

\* reports the tools print
DnsReport ==
    <<"NS: ns1.example.com", NL, "MX: 10 mail.example.com", NL,
      "www.example.com 300 IN A 192.0.2.1", NL, "cdn.example.net 300 IN A 192.0.2.2">>
SslReport ==
    <<"TLSv1.2 enabled", NL, "SSLv3 disabled", NL, "Accepted TLSv1.2 256 bits AES256-SHA DHE",
      NL, "Subject: example.com", NL, "Issuer: R3">>
WafReport == <<"example.com is behind Cloudflare">>

ProcessProbes == {"whatweb", "theharvester", "dnsenum", "sslscan", "wafw00f"}

FileTexts(probe) ==
    IF probe = "theharvester" THEN XmlTexts
    ELSE IF probe = "dnsenum" THEN {<<>>}
    ELSE JsonTexts

Stdouts(probe) ==
    CASE probe = "theharvester" -> {<<>>, <<"<email>", "a@example.com", "</email>">>}
      [] probe = "dnsenum" -> {<<>>, DnsReport, <<"x">>}
      [] probe = "sslscan" -> {<<>>, SslReport, <<"x">>}
      [] probe = "wafw00f" -> {<<>>, WafReport, <<"x">>}
      [] OTHER -> {<<>>, ValidJson, <<"x">>}

Clocks == {0, 1}
Durations == {15}

\* every way the tool of a probe can behave
RichEnvs(probe) ==
    {Env("missing", 1, <<>>, <<>>, FALSE, <<>>, "ok", now, 0) : now \in Clocks}
    \cup
    {Env("ok", x.rc, out, x.err, present, IF present THEN file ELSE <<>>, io, now, d) :
        x \in {[rc |-> 0, err |-> <<>>], [rc |-> 1, err |-> <<>>],
               [rc |-> 1, err |-> <<"stderr">>]},
        out \in Stdouts(probe), present \in BOOLEAN, file \in FileTexts(probe),
        io \in IoModes, now \in Clocks, d \in Durations}

\* the tool's good output
GoodFile(probe) ==
    IF probe = "theharvester"
    THEN <<XmlDecl, "<theHarvester>", "<email>", "a@example.com", "</email>",
           "<host>", "www.example.com", "</host>", "</theHarvester>">>
    ELSE ValidJson
GoodStdout(probe) ==
    CASE probe = "dnsenum" -> DnsReport
      [] probe = "sslscan" -> SslReport
      [] probe = "wafw00f" -> WafReport
      [] OTHER -> <<>>

\* the behaviours of a tool that a whole run of the coordinator draws from:
\* no binary, a non-zero exit with nothing printed and nothing written, a
\* good run, and a good run on a disk that cannot be written
CoarseEnvs(probe) ==
    {Env("missing", 1, <<>>, <<>>, FALSE, <<>>, "ok", 0, 0),
     Env("ok", 1, <<>>, <<"stderr">>, FALSE, <<>>, "ok", 0, 15),
     Env("ok", 0, GoodStdout(probe), <<>>, probe # "dnsenum", GoodFile(probe), "ok", 0, 15),
     Env("ok", 0, <<"x">>, <<>>, FALSE, <<>>, "unwritable", 0, 15)}

\* the behaviours of a tool that a run of main draws from: no binary, and a
\* good run
MainEnvs(probe) ==
    {Env("missing", 1, <<>>, <<>>, FALSE, <<>>, "ok", 0, 0),
     Env("ok", 0, GoodStdout(probe), <<>>, probe # "dnsenum", GoodFile(probe), "ok", 0, 15)}

\* the behaviours of the headless browser: there is none to launch, or it
\* is launched and shows a page with or without scripts, forms and links,
\* on a disk that can or cannot be written, and one of the calls made to it
\* may raise
BrowserEnvs ==
    {[Env("missing", 0, <<>>, <<>>, FALSE, <<>>, "ok", 0, 0) EXCEPT !.fails = "launch"]}
    \cup
    {[Env("ok", 0, <<>>, <<>>, FALSE, <<>>, io, 0, 0) EXCEPT !.page = page, !.fails = f] :
        io \in {"ok", "unwritable"}, page \in {"plain", "rich"},
        f \in {"none"} \cup {BrowserAwaits[i] : i \in 2..Len(BrowserAwaits)}}

\* the replies of securityheaders.com: no answer, no security header, one
\* spelled as the code spells it, two spelled otherwise
HeaderReplies ==
    {[kind |-> "error", status_code |-> 0, length |-> 0, headers |-> PyDict(<<>>), io |-> "ok"],
     [kind |-> "ok", status_code |-> 200, length |-> 7, headers |-> PyDict(<<>>), io |-> "ok"],
     [kind |-> "ok", status_code |-> 200, length |-> 7, io |-> "ok",
      headers |-> PyDict(<< <<K("X-Frame-Options"), S("DENY")>> >>)],
     [kind |-> "ok", status_code |-> 200, length |-> 7, io |-> "ok",
      headers |-> PyDict(<< <<K("x-frame-options"), S("DENY")>>,
                            <<K("STRICT-TRANSPORT-SECURITY"), S("max-age=0")>> >>)]}

\* the replies of the SSL Labs API
SslLabsReplies ==
    {Reply("error", PyNone), Reply("text", PyNone), Reply("json", PyDict(<<>>)),
     Reply("json", PyList(<<>>))}
    \cup {Reply("json", PyDict(<< <<K("status"), S(st)>> >>)) :
            st \in {"DNS", "IN_PROGRESS", "READY", "ERROR"}}

\* the replies of the Mozilla Observatory API
MozillaReplies ==
    {Reply("error", PyNone), Reply("text", PyNone), Reply("json", PyDict(<<>>)),
     Reply("json", PyDict(<< <<K("error"), S("invalid-hostname")>> >>)),
     Reply("json", PyDict(<< <<K("scan_id"), PyInt(1)>>, <<K("state"), S("PENDING")>> >>)),
     Reply("json", PyDict(<< <<K("scan_id"), PyInt(1)>>, <<K("state"), S("RUNNING")>> >>)),
     Reply("json", PyDict(<< <<K("scan_id"), PyInt(1)>>, <<K("state"), S("FINISHED")>> >>)),
     Reply("json", PyDict(<< <<K("scan_id"), PyInt(1)>>, <<K("state"), S("FAILED")>> >>))}

\* ------------------------------------------------------------------------
\* The state
\* ------------------------------------------------------------------------

VARIABLES
    entry,                \* the function called: "run_recon", "adapter", "main",
                          \* "robust_json_parse" or "load_json_file"
    target,               \* its arguments
    use_browser,
    use_online_services,
    dry_run,
    opts,                 \* scan_type, custom_options and timeout of the nikto scanners
    pc,                   \* where the call stands: the probe about to run, "returned", "raised"
    results,              \* the items of the dict run_recon fills
    last,                 \* the adapter that returned last, what its tool or service did,
                          \* what it returned or raised
    fs,                   \* the files and directories that exist, with their text
    spawned,              \* the probes that launched an external process
    http,                 \* the number of HTTP requests made
    clock,                \* the seconds slept in polling loops
    progress,             \* the progress bar: total and completed
    api,                  \* the local variables of a polling adapter between two requests
    content,              \* the text given to robust_json_parse
    args,                 \* the command line main parsed: mode, no_browser, no_online
    calls,                \* the phases main has called, with the arguments it passed
    nikto_data,           \* the parsed results given to create_nikto_summary
    output_dir,           \* the output directory given ("" when none is given), and for
                          \* run_recon the one it works in once it made its own
    disk_at_call          \* the files and directories that existed when the call was made

inputs ==
    <<entry, target, use_browser, use_online_services, dry_run, opts, nikto_data, output_dir,
      disk_at_call>>

\* the variables of main alone
mainvars == <<args, calls>>

vars == <<entry, target, use_browser, use_online_services, dry_run, opts, pc, results,
          last, fs, spawned, http, clock, progress, api, content, args, calls,
          nikto_data, output_dir, disk_at_call>>

\* the directory a caller gives
GivenDir == "out"

\* datetime.now().strftime("%Y-%m-%d-%H-%M-%S")
ResultsStamp(now) == IF now = 0 THEN "2024-01-01-00-00-00" ELSE "2024-01-01-00-00-01"

\* os.path.join(base_dir, "results", f"{domain}-{timestamp}"), from base_dir on
ResultsDirName(domain, now) ==
    CASE domain = <<"example.com">> /\ now = 0 -> "results/example.com-2024-01-01-00-00-00"
      [] domain = <<"example.com">> /\ now = 1 -> "results/example.com-2024-01-01-00-00-01"

\* create_results_dir(target): the directory is made and its path returned
create_results_dir(t, files, now) ==
    [results_dir |-> ResultsDirName(extract_domain(t), now),
     fs |-> MkDir(files, ResultsDirName(extract_domain(t), now))]

\* os.path.join(dir, name) for the directories recon and logs
SubDir(dir, name) ==
    CASE dir = "out" /\ name = "recon" -> "out/recon"
      [] dir = "out" /\ name = "logs" -> "out/logs"
      [] dir = ResultsDirName(<<"example.com">>, 0) /\ name = "recon" ->
            "results/example.com-2024-01-01-00-00-00/recon"
      [] dir = ResultsDirName(<<"example.com">>, 0) /\ name = "logs" ->
            "results/example.com-2024-01-01-00-00-00/logs"
      [] dir = ResultsDirName(<<"example.com">>, 1) /\ name = "recon" ->
            "results/example.com-2024-01-01-00-00-01/recon"
      [] dir = ResultsDirName(<<"example.com">>, 1) /\ name = "logs" ->
            "results/example.com-2024-01-01-00-00-01/logs"

\* the directory run_recon, main or an adapter called on its own works in
OutDir == output_dir
\* os.path.join(output_dir, 'recon')
ReconDir == SubDir(output_dir, "recon")
\* os.path.join(results_dir, 'logs')
LogsDir == SubDir(output_dir, "logs")
\* the call is a run of run_recon, made directly or by main
InRunRecon == entry \in {"run_recon", "main"}
OutputDir == IF InRunRecon THEN ReconDir ELSE OutDir

AdapterProbes ==
    ProcessProbes \cup {"browser", "ssllabs", "securityheaders", "mozilla_observatory",
                        "nikto", "http_observatory_scan", "nikto_scan"}

NiktoOpts ==
    {[scan_type |-> st, custom_options |-> co, timeout |-> to] :
        st \in {"basic", "quick", "thorough", "custom"},
        co \in {<<>>, <<"-Tuning 1">>}, to \in {0, 600}}
DefaultOpts == [scan_type |-> "basic", custom_options |-> <<>>, timeout |-> 0]

\* the environment of a call that met none
NoEnv == [start |-> "none"]
NoCall == [probe |-> "none", env |-> NoEnv, ret |-> PyNone, exc |-> "none"]
Idle == [phase |-> "idle", data |-> PyNone, scan_id |-> PyNone]
NoProgress == [total |-> 0, completed |-> 0]
\* the command line of a call that is not main's
NoArgs == [mode |-> "none", no_browser |-> FALSE, no_online |-> FALSE]

\* datetime.now().strftime("%Y%m%d-%H%M%S")
LoggerStamp(now) == IF now = 0 THEN "20240101-000000" ELSE "20240101-000001"

\* utils/logger.py setup_logger(target, results_dir): the logs directory is
\* made and the log file opened
setup_logger(results_dir, logs_dir, files, now) ==
    WriteFile(MkDir(MkDir(files, results_dir), logs_dir),
              <<logs_dir, "/", "kast-", LoggerStamp(now), ".log">>, <<"log">>)

\* run_recon is called with an output directory or without one
InitRecon ==
    /\ entry = "run_recon"
    /\ target \in Targets
    /\ use_browser \in BOOLEAN
    /\ use_online_services \in BOOLEAN
    /\ dry_run \in BOOLEAN
    /\ opts = DefaultOpts
    /\ output_dir \in {"", GivenDir}
    /\ pc = "start"
    /\ fs = <<>>

\* the disk on which an adapter is called on its own: test_recon.py makes
\* the output directory and sets up the logger before it calls a recon
\* adapter, test_nikto.py and main() of nikto_scanner.py make the output
\* directory before they call run_nikto; another caller makes the directory
\* alone, or nothing for run_nikto and the kast scans, which make it
\* themselves
DisksAtCall(probe) ==
    CASE probe \in {"http_observatory_scan", "nikto_scan"} -> {<<>>}
      [] probe = "nikto" -> {<<>>, MkDir(<<>>, GivenDir)}
      [] OTHER ->
            {MkDir(<<>>, GivenDir)}
            \cup {setup_logger(GivenDir, SubDir(GivenDir, "logs"), MkDir(<<>>, GivenDir), now) :
                    now \in Clocks}

\* an adapter called on its own, as test_recon.py, test_nikto.py and the
\* kast modules do
InitAdapter ==
    /\ entry = "adapter"
    /\ target \in Targets
    /\ use_browser = FALSE
    /\ use_online_services = FALSE
    /\ dry_run \in BOOLEAN
    /\ pc \in AdapterProbes
    /\ opts \in (CASE pc = "nikto" -> {o \in NiktoOpts : o.timeout = 0}
                   [] pc = "nikto_scan" ->
                        {o \in NiktoOpts : o.scan_type = "basic" /\ o.custom_options = <<>>}
                   [] OTHER -> {DefaultOpts})
    /\ output_dir = GivenDir
    /\ fs \in DisksAtCall(pc)

Init ==
    /\ InitRecon \/ InitAdapter
    /\ results = <<>>
    /\ last = NoCall
    /\ spawned = {}
    /\ http = 0
    /\ clock = 0
    /\ progress = NoProgress
    /\ api = Idle
    /\ content = <<>>
    /\ args = NoArgs
    /\ calls = <<>>
    /\ nikto_data = PyNone
    /\ disk_at_call = fs

\* ------------------------------------------------------------------------
\* The operations
\* ------------------------------------------------------------------------

\* total_tasks of run_recon
TotalTasks ==
    5 + (IF use_browser THEN 1 ELSE 0) + (IF use_online_services THEN 3 ELSE 0)

\* the key run_recon stores a probe's result under
ResultKey(probe) == K(probe)

\* the statement of run_recon that follows the call of a probe
AfterBrowser == IF use_online_services THEN "ssllabs" ELSE "finish"
After(probe) ==
    CASE probe = "whatweb" -> "theharvester"
      [] probe = "theharvester" -> "dnsenum"
      [] probe = "dnsenum" -> "sslscan"
      [] probe = "sslscan" -> "wafw00f"
      [] probe = "wafw00f" ->
            IF use_browser /\ HasScheme(target) THEN "browser" ELSE AfterBrowser
      [] probe = "browser" -> AfterBrowser
      [] probe = "ssllabs" -> "securityheaders"
      [] probe = "securityheaders" -> "finish"

Bump(n, by, max) == IF n + by > max THEN max ELSE n + by

\* an adapter comes back with outcome out: inside run_recon the value is
\* stored and the progress bar advanced, and an exception leaves run_recon
Invoke(probe, env, out) ==
    /\ fs' = out.fs
    /\ spawned' = IF out.spawned THEN spawned \cup {probe} ELSE spawned
    /\ http' = Bump(http, out.http, MaxHttp)
    /\ last' = [probe |-> probe,
                env |-> IF out.spawned \/ out.http > 0 THEN env ELSE NoEnv,
                ret |-> out.ret, exc |-> out.exc]
    /\ IF out.exc # "none"
       THEN pc' = "raised" /\ UNCHANGED <<results, progress>>
       ELSE IF InRunRecon
       THEN /\ results' = DictPut(results, ResultKey(probe), out.ret)
            /\ progress' = [progress EXCEPT !.completed = @ + 1]
            /\ pc' = After(probe)
       ELSE pc' = "returned" /\ UNCHANGED <<results, progress>>

\* the behaviours of the browser and of the two services that a whole run
\* of the coordinator draws from: the browser cannot be launched, reads a
\* page with scripts, forms and links, fails after the screenshot or does
\* not close; a service does not answer or answers; SSL Labs also answers
\* that the scan is in progress
CoarseBrowserEnvs ==
    {e \in BrowserEnvs :
        \/ e.start = "missing"
        \/ e.io = "ok" /\ e.page = "rich" /\ e.fails \in {"none", "cookies", "close"}}
CoarseHeaderReplies ==
    {r \in HeaderReplies : r.kind = "error" \/ Len(r.headers.v) = 2}
CoarseSslLabsReplies ==
    {Reply("error", PyNone)}
    \cup {Reply("json", PyDict(<< <<K("status"), S(st)>> >>)) : st \in {"IN_PROGRESS", "READY"}}

BrowserRuns == IF entry = "adapter" THEN BrowserEnvs ELSE CoarseBrowserEnvs
HeaderAnswers == IF entry = "adapter" THEN HeaderReplies ELSE CoarseHeaderReplies
SslLabsAnswers == IF entry = "adapter" THEN SslLabsReplies ELSE CoarseSslLabsReplies

Envs(probe) ==
    CASE entry = "run_recon" -> CoarseEnvs(probe)
      [] entry = "main" -> MainEnvs(probe)
      [] OTHER -> RichEnvs(probe)

\* the latest reading of the clock that the name of a log file records:
\* time does not run backwards between two calls of setup_logger
Started ==
    IF \E path \in DOMAIN fs : Len(path) = 5 /\ path[4] = LoggerStamp(1) THEN 1 ELSE 0

\* run_recon up to its first probe (coordinator.py lines 29-52): without an
\* output directory create_results_dir makes one, named after the time; the
\* log file is named after the time setup_logger reads
Prepare ==
    /\ pc = "start"
    /\ \E made \in Clocks, now \in Clocks :
          /\ made <= now
          /\ Started <= now
          /\ LET dir == IF output_dir = ""
                        THEN create_results_dir(target, fs, made)
                        ELSE [results_dir |-> output_dir, fs |-> fs]
             IN  /\ output_dir' = dir.results_dir
                 /\ fs' = MkDir(setup_logger(dir.results_dir, SubDir(dir.results_dir, "logs"),
                                             dir.fs, now),
                                SubDir(dir.results_dir, "recon"))
    /\ progress' = [total |-> TotalTasks, completed |-> 0]
    /\ pc' = "whatweb"
    /\ UNCHANGED <<entry, target, use_browser, use_online_services, dry_run, opts, nikto_data,
                   disk_at_call, mainvars, results, last, spawned, http, clock, api, content>>

Whatweb ==
    /\ pc = "whatweb"
    /\ \E e \in Envs("whatweb") :
          Invoke("whatweb", e, run_whatweb(target, OutputDir, dry_run, fs, e))
    /\ UNCHANGED <<inputs, mainvars, clock, api, content>>

Theharvester ==
    /\ pc = "theharvester"
    /\ \E e \in Envs("theharvester") :
          Invoke("theharvester", e, run_theharvester(target, OutputDir, dry_run, fs, e))
    /\ UNCHANGED <<inputs, mainvars, clock, api, content>>

Dnsenum ==
    /\ pc = "dnsenum"
    /\ \E e \in Envs("dnsenum") :
          Invoke("dnsenum", e, run_dnsenum(target, OutputDir, dry_run, fs, e))
    /\ UNCHANGED <<inputs, mainvars, clock, api, content>>

Sslscan ==
    /\ pc = "sslscan"
    /\ \E e \in Envs("sslscan") :
          Invoke("sslscan", e, run_sslscan(target, OutputDir, dry_run, fs, e))
    /\ UNCHANGED <<inputs, mainvars, clock, api, content>>

Wafw00f ==
    /\ pc = "wafw00f"
    /\ \E e \in Envs("wafw00f") :
          Invoke("wafw00f", e, run_wafw00f(target, OutputDir, dry_run, fs, e))
    /\ UNCHANGED <<inputs, mainvars, clock, api, content>>

\* browser_recon is called (web_recon.py lines 142-151, 13-43): a dry run
\* returns its descriptor, otherwise the coroutine runs up to its first
\* await, the launch of the browser
Browser ==
    /\ pc = "browser"
    /\ api.phase = "idle"
    /\ IF dry_run
       THEN /\ Invoke("browser", NoEnv,
                      browser_recon(target, OutputDir, dry_run, fs, NoEnv))
            /\ UNCHANGED api
       ELSE /\ api' = [phase |-> "launch", data |-> PyDict(<<>>), scan_id |-> PyNone]
            /\ spawned' = spawned \cup {"browser"}
            /\ UNCHANGED <<fs, pc, results, last, http, progress>>
    /\ UNCHANGED <<inputs, mainvars, clock, content>>

\* the browser answers the call the coroutine awaits: the coroutine goes on
\* to its next await, or browser_recon returns.  The calls answered so far
\* did not raise, and the page shows now what it showed before
BrowserAwait ==
    /\ pc = "browser"
    /\ api.phase \in {BrowserAwaits[i] : i \in 1..Len(BrowserAwaits)}
    /\ \E e \in BrowserRuns :
          /\ e.start = "missing" => api.phase = "launch"
          /\ e.fails # "none" => AwaitIndex(e.fails) >= AwaitIndex(api.phase)
          /\ (IsDict(api.data) /\ HasKey(api.data, K("js_files"))) =>
                PageList(e, "app.js") = Get(api.data, K("js_files"))
          /\ LET step == browser_await(OutputDir, fs, api.phase, api.data, e)
             IN  IF step.done
                 THEN Invoke("browser", e, step.out) /\ api' = Idle
                 ELSE /\ api' = [phase |-> step.at, data |-> step.locals, scan_id |-> PyNone]
                      /\ fs' = step.out.fs
                      /\ UNCHANGED <<pc, results, last, spawned, http, progress>>
    /\ UNCHANGED <<inputs, mainvars, clock, content>>

Securityheaders ==
    /\ pc = "securityheaders"
    /\ \E r \in HeaderAnswers, io \in {"ok", "unwritable"} :
          Invoke("securityheaders", [r EXCEPT !.io = io],
                 run_securityheaders(target, OutputDir, dry_run, fs, r, io))
    /\ UNCHANGED <<inputs, mainvars, clock, api, content>>

\* the end of run_recon (coordinator.py lines 103-108)
Finish ==
    /\ pc = "finish"
    /\ pc' = IF entry = "main" THEN "vuln_phase" ELSE "returned"
    /\ UNCHANGED <<inputs, mainvars, results, last, fs, spawned, http, clock, progress, api,
                   content>>

\* run_ssllabs up to its second request: the first request is answered, and
\* when the status is neither READY nor ERROR the loop is entered and its
\* time.sleep(30) done
SsllabsSubmit ==
    /\ pc = "ssllabs"
    /\ api.phase = "idle"
    /\ IF dry_run
       THEN /\ Invoke("ssllabs", NoEnv,
                      Returns(DryRunApi(extract_domain(target), "SSL Labs",
                                        Join(OutputDir, "ssllabs.json")), fs, FALSE, 0))
            /\ UNCHANGED <<api, clock>>
       ELSE \E reply \in SslLabsAnswers, io \in {"ok", "unwritable"} :
               LET r == ssllabs_reply(OutputDir, fs, reply, io)
               IN  IF r.loop
                   THEN /\ api' = [phase |-> "polling", data |-> reply.data,
                                   scan_id |-> PyNone]
                        /\ http' = Bump(http, 1, MaxHttp)
                        /\ clock' = Bump(clock, 30, MaxClock)
                        /\ UNCHANGED <<pc, results, last, fs, spawned, progress>>
                   ELSE /\ Invoke("ssllabs", [reply EXCEPT !.io = io], r.out)
                        /\ UNCHANGED <<api, clock>>
    /\ UNCHANGED <<inputs, mainvars, content>>

\* one turn of the while loop of run_ssllabs, from its request on: the
\* request is answered, and when the loop goes on the time.sleep(30) of the
\* next turn is done
SsllabsPoll ==
    /\ pc = "ssllabs"
    /\ api.phase = "polling"
    /\ \E reply \in SslLabsAnswers, io \in {"ok", "unwritable"} :
          LET r == ssllabs_reply(OutputDir, fs, reply, io)
          IN  IF r.loop
              THEN /\ api' = [api EXCEPT !.data = reply.data]
                   /\ http' = Bump(http, 1, MaxHttp)
                   /\ clock' = Bump(clock, 30, MaxClock)
                   /\ UNCHANGED <<pc, results, last, fs, spawned, progress>>
              ELSE /\ Invoke("ssllabs", [reply EXCEPT !.io = io], r.out)
                   /\ api' = Idle
                   /\ UNCHANGED clock
    /\ UNCHANGED <<inputs, mainvars, content>>

\* run_mozilla_observatory up to the reply to its POST
MozillaSubmit ==
    /\ pc = "mozilla_observatory"
    /\ api.phase = "idle"
    /\ IF dry_run
       THEN /\ Invoke("mozilla_observatory", NoEnv,
                      Returns(DryRunApi(extract_domain(target), "Mozilla Observatory",
                                        Join(OutputDir, "mozilla_observatory.json")),
                              fs, FALSE, 0))
            /\ UNCHANGED api
       ELSE \E reply \in MozillaReplies :
               LET r == mozilla_submit(reply)
               IN  IF r.ok
                   THEN /\ api' = [phase |-> "status", data |-> reply.data,
                                   scan_id |-> r.scan_id]
                        /\ http' = Bump(http, 1, MaxHttp)
                        /\ UNCHANGED <<pc, results, last, fs, spawned, progress>>
                   ELSE /\ Invoke("mozilla_observatory", reply, Returns(PyNone, fs, FALSE, 1))
                        /\ UNCHANGED api
    /\ UNCHANGED <<inputs, mainvars, clock, content>>

\* one turn of the while loop of run_mozilla_observatory: ask for the
\* status, and sleep when the scan is neither finished nor failed
MozillaStatus ==
    /\ pc = "mozilla_observatory"
    /\ api.phase = "status"
    /\ \E reply \in MozillaReplies :
          LET r == mozilla_status(reply)
          IN  CASE r = "wait" ->
                      /\ api' = [api EXCEPT !.data = reply.data]
                      /\ http' = Bump(http, 1, MaxHttp)
                      /\ clock' = Bump(clock, 10, MaxClock)
                      /\ UNCHANGED <<pc, results, last, fs, spawned, progress>>
                [] r = "fetch" ->
                      /\ api' = [api EXCEPT !.phase = "fetch", !.data = reply.data]
                      /\ http' = Bump(http, 1, MaxHttp)
                      /\ UNCHANGED <<pc, results, last, fs, spawned, progress, clock>>
                [] r = "failed" ->
                      /\ Invoke("mozilla_observatory", reply, Returns(PyNone, fs, FALSE, 1))
                      /\ api' = Idle
                      /\ UNCHANGED clock
    /\ UNCHANGED <<inputs, mainvars, content>>

\* the request for the results, after the loop
MozillaFetch ==
    /\ pc = "mozilla_observatory"
    /\ api.phase = "fetch"
    /\ \E reply \in MozillaReplies, io \in {"ok", "unwritable"} :
          Invoke("mozilla_observatory", [reply EXCEPT !.io = io],
                 mozilla_fetch(OutputDir, fs, api.data, reply, io))
    /\ api' = Idle
    /\ UNCHANGED <<inputs, mainvars, clock, content>>

Nikto ==
    /\ pc = "nikto"
    /\ \E e \in RichEnvs("nikto"), later \in Clocks :
          /\ e.now <= later
          /\ Invoke("nikto", [e EXCEPT !.later = later],
                    run_nikto(target, OutputDir, opts.scan_type, opts.custom_options, dry_run,
                              fs, [e EXCEPT !.later = later]))
    /\ UNCHANGED <<inputs, mainvars, clock, api, content>>

HttpObservatoryScan ==
    /\ pc = "http_observatory_scan"
    /\ \E e \in RichEnvs("http_observatory_scan") :
          Invoke("http_observatory_scan", e,
                 http_observatory_scan(target, OutputDir, dry_run, fs, e))
    /\ UNCHANGED <<inputs, mainvars, clock, api, content>>

NiktoScan ==
    /\ pc = "nikto_scan"
    /\ \E e \in RichEnvs("nikto_scan") :
          Invoke("nikto_scan", e, nikto_scan(target, OutputDir, opts.timeout, dry_run, fs, e))
    /\ UNCHANGED <<inputs, mainvars, clock, api, content>>

\* ------------------------------------------------------------------------
\* A call that does not come back, and a user interrupt
\* ------------------------------------------------------------------------

ApiProbes == {"ssllabs", "securityheaders", "mozilla_observatory"}

\* the adapter at pc reaches its subprocess.run, its requests.get/post or,
\* in browser_recon, an await on the browser: a dry run returns before it,
\* and so does a kast scan whose log file cannot be opened
ReachesCall ==
    /\ pc \in ProcessProbes \cup ApiProbes
             \cup {"browser", "nikto", "http_observatory_scan", "nikto_scan"}
    /\ ~dry_run
    /\ pc \in {"http_observatory_scan", "nikto_scan"} => ~HasScheme(target)
    /\ pc = "browser" => api.phase # "idle"

\* the files an adapter has made when it reaches that call
BeforeCall(probe, files, now) ==
    CASE probe = "nikto" -> MkDir(files, OutputDir)
      [] probe = "http_observatory_scan" ->
            MkDir(kast_setup_logger("http_observatory", target, files, now).fs, OutputDir)
      [] probe = "nikto_scan" ->
            MkDir(kast_setup_logger("nikto", target, files, now).fs, OutputDir)
      [] OTHER -> files

\* what an adapter has done when the call it waits in is cut short
Cut(probe, exc, files) ==
    Raises(exc, files, probe \notin ApiProbes, IF probe \in ApiProbes THEN 1 ELSE 0)

\* subprocess.run and requests.get/post are given no timeout=: when the tool
\* or the service never answers, the call never returns and nothing after it
\* runs
Hang ==
    /\ ReachesCall
    /\ \E now \in Clocks : fs' = BeforeCall(pc, fs, now)
    /\ spawned' = IF pc \in ApiProbes THEN spawned ELSE spawned \cup {pc}
    /\ http' = IF pc \in ApiProbes THEN Bump(http, 1, MaxHttp) ELSE http
    /\ last' = [probe |-> pc, env |-> [start |-> "hang"], ret |-> PyNone, exc |-> "none"]
    /\ pc' = "blocked"
    /\ UNCHANGED <<inputs, mainvars, results, clock, progress, api, content>>

\* Ctrl-C while the adapter waits for its tool or its service: the
\* KeyboardInterrupt is no Exception, so no handler of the adapters or of
\* run_recon catches it
Interrupt ==
    /\ ReachesCall
    /\ \E now \in Clocks :
          Invoke(pc, [start |-> "interrupt"], Cut(pc, "KeyboardInterrupt", BeforeCall(pc, fs, now)))
    /\ UNCHANGED <<inputs, mainvars, clock, api, content>>

Next ==
    \/ Prepare
    \/ Whatweb
    \/ Theharvester
    \/ Dnsenum
    \/ Sslscan
    \/ Wafw00f
    \/ Browser
    \/ BrowserAwait
    \/ SsllabsSubmit
    \/ SsllabsPoll
    \/ Securityheaders
    \/ MozillaSubmit
    \/ MozillaStatus
    \/ MozillaFetch
    \/ Nikto
    \/ HttpObservatoryScan
    \/ NiktoScan
    \/ Finish
    \/ Hang
    \/ Interrupt

Spec == Init /\ [][Next]_vars

\* ------------------------------------------------------------------------
\* main.py: the command line, the phases and the report
\* ------------------------------------------------------------------------

Modes == {"recon", "vuln", "full"}

\* main is given a target and -o out; the mode and the two toggles are free
InitMain ==
    /\ entry = "main"
    /\ target \in MainTargets
    /\ args \in [mode : Modes, no_browser : BOOLEAN, no_online : BOOLEAN]
    /\ dry_run \in BOOLEAN
    /\ use_browser = TRUE
    /\ use_online_services = TRUE
    /\ opts = DefaultOpts
    /\ output_dir = GivenDir
    /\ pc = "main"
    /\ fs = <<>>
    /\ results = <<>>
    /\ last = NoCall
    /\ spawned = {}
    /\ http = 0
    /\ clock = 0
    /\ progress = NoProgress
    /\ api = Idle
    /\ content = <<>>
    /\ calls = <<>>
    /\ nikto_data = PyNone
    /\ disk_at_call = fs

\* vulnerability_scanner.run_scan(target, output_dir, use_browser, dry_run):
\* the module is not part of the sources; it is taken to return its results
\* and its directory
run_scan(t, out_dir, browser, dry, files) ==
    [results |-> PyDict(<<>>), vuln_dir |-> <<out_dir, "/", "vuln">>, fs |-> files]

\* report_generator.generate_report(target, results, output_dir): the module
\* is not part of the sources; it is taken to write the report and return
\* its path
generate_report(t, data, out_dir, files) ==
    [report_path |-> Join(out_dir, "report.html"),
     fs |-> WriteFile(files, Join(out_dir, "report.html"), <<"report">>)]

\* MainStart with the output directory made and the log file opened before
\* the target is checked
MainStartUnchecked ==
    /\ pc = "main"
    /\ \E now \in Clocks : fs' = setup_logger(OutDir, LogsDir, MkDir(fs, OutDir), now)
    /\ pc' = IF is_valid_target(target) THEN "recon_phase" ELSE "exit_1"
    /\ UNCHANGED <<inputs, mainvars, results, last, spawned, http, clock, progress, api,
                   content>>

\* main up to its first phase (main.py lines 27-104): the target is
\* validated, the user confirms unless --quiet or --no-banner is given, the
\* output directory is made and the log file opened
MainStart ==
    /\ pc = "main"
    /\ IF ~is_valid_target(target)
       THEN pc' = "exit_1" /\ UNCHANGED fs
       ELSE \E confirmed \in BOOLEAN :
               IF confirmed
               THEN /\ \E now \in Clocks :
                          fs' = setup_logger(OutDir, LogsDir, MkDir(fs, OutDir), now)
                    /\ pc' = "recon_phase"
               ELSE pc' = "exit_0" /\ UNCHANGED fs
    /\ UNCHANGED <<inputs, mainvars, results, last, spawned, http, clock, progress, api,
                   content>>

\* ReconPhase with the toggles handed on as the command line gives them,
\* without the negation
ReconPhaseToggles ==
    /\ pc = "recon_phase"
    /\ IF args.mode \in {"recon", "full"}
       THEN /\ use_browser' = args.no_browser
            /\ use_online_services' = args.no_online
            /\ calls' = Append(calls, [fn |-> "run_recon", use_browser |-> args.no_browser,
                                       use_online_services |-> args.no_online,
                                       dry_run |-> dry_run])
            /\ pc' = "start"
       ELSE /\ pc' = "vuln_phase"
            /\ UNCHANGED <<use_browser, use_online_services, calls>>
    /\ UNCHANGED <<entry, target, dry_run, opts, nikto_data, output_dir, disk_at_call, args,
                   results, last, fs, spawned, http, clock, progress, api, content>>

\* the reconnaissance phase (main.py lines 106-115): run_recon is called in
\* the modes recon and full
ReconPhase ==
    /\ pc = "recon_phase"
    /\ IF args.mode \in {"recon", "full"}
       THEN /\ use_browser' = ~args.no_browser
            /\ use_online_services' = ~args.no_online
            /\ calls' = Append(calls, [fn |-> "run_recon", use_browser |-> ~args.no_browser,
                                       use_online_services |-> ~args.no_online,
                                       dry_run |-> dry_run])
            /\ pc' = "start"
       ELSE /\ pc' = "vuln_phase"
            /\ UNCHANGED <<use_browser, use_online_services, calls>>
    /\ UNCHANGED <<entry, target, dry_run, opts, nikto_data, output_dir, disk_at_call, args,
                   results, last, fs, spawned, http, clock, progress, api, content>>

\* the vulnerability phase (main.py lines 117-125): run_scan is called in the
\* modes vuln and full
VulnPhase ==
    /\ pc = "vuln_phase"
    /\ IF args.mode \in {"vuln", "full"}
       THEN /\ calls' = Append(calls, [fn |-> "run_scan", use_browser |-> ~args.no_browser,
                                       dry_run |-> dry_run])
            /\ fs' = run_scan(target, OutDir, ~args.no_browser, dry_run, fs).fs
       ELSE UNCHANGED <<calls, fs>>
    /\ pc' = "report"
    /\ UNCHANGED <<inputs, args, results, last, spawned, http, clock, progress, api, content>>

\* the report (main.py lines 127-135), after which main returns
Report ==
    /\ pc = "report"
    /\ fs' = IF dry_run THEN fs ELSE generate_report(target, results, OutDir, fs).fs
    /\ pc' = "exit_0"
    /\ UNCHANGED <<inputs, mainvars, results, last, spawned, http, clock, progress, api,
                   content>>

\* the handlers around main() (main.py lines 137-145): Ctrl-C ends the
\* program with status 0, any other exception with status 1
MainExcept ==
    /\ entry = "main"
    /\ pc = "raised"
    /\ pc' = IF last.exc = "KeyboardInterrupt" THEN "exit_0" ELSE "exit_1"
    /\ UNCHANGED <<inputs, mainvars, results, last, fs, spawned, http, clock, progress, api,
                   content>>

NextMain ==
    \/ MainStart
    \/ ReconPhase
    \/ Prepare
    \/ Whatweb
    \/ Theharvester
    \/ Dnsenum
    \/ Sslscan
    \/ Wafw00f
    \/ Browser
    \/ BrowserAwait
    \/ SsllabsSubmit
    \/ SsllabsPoll
    \/ Securityheaders
    \/ Finish
    \/ VulnPhase
    \/ Report
    \/ MainExcept
    \/ Hang
    \/ Interrupt

SpecMain == InitMain /\ [][NextMain]_vars

\* ------------------------------------------------------------------------
\* robust_json_parse and load_json_file on their own
\* ------------------------------------------------------------------------

\* the texts are made of at most MaxFrags of these pieces
MaxFrags == 4
Frags ==
    {<<"{", QUOTE, "x", QUOTE, ":", "1", "}">>, <<"{", "}">>, <<"[">>, <<"]">>, <<"1">>,
     <<",">>, <<"x">>, <<NL>>, <<SP>>, <<"n", "u", "l", "l">>,
     <<QUOTE, "x", QUOTE>>, <<"{", QUOTE, "x", QUOTE, ":", QUOTE, BSL, QUOTE, QUOTE, "}">>,
     <<"{", QUOTE, "x", QUOTE, ":", "[", "1", "]", "}">>}

RECURSIVE Flatten(_, _)
\* the pieces ps[i..], one after the other
Flatten(ps, i) == IF i > Len(ps) THEN <<>> ELSE ps[i] \o Flatten(ps, i + 1)

JsonInputs == {Flatten(ps, 1) : ps \in UNION {[1..k -> Frags] : k \in 0..MaxFrags}}

\* the file load_json_file is given
JsonFile == Join(OutDir, "data.json")

InitJson ==
    /\ entry \in {"robust_json_parse", "load_json_file"}
    /\ content \in JsonInputs
    /\ pc = entry
    /\ output_dir = GivenDir
    /\ fs = IF entry = "load_json_file" THEN WriteFile(MkDir(<<>>, OutDir), JsonFile, content)
            ELSE <<>>
    /\ target \in {t \in Targets : t.scheme = ""}
    /\ use_browser = FALSE
    /\ use_online_services = FALSE
    /\ dry_run = FALSE
    /\ opts = DefaultOpts
    /\ results = <<>>
    /\ last = NoCall
    /\ spawned = {}
    /\ http = 0
    /\ clock = 0
    /\ progress = NoProgress
    /\ api = Idle
    /\ args = NoArgs
    /\ calls = <<>>
    /\ nikto_data = PyNone
    /\ disk_at_call = fs

\* robust_json_parse(content), with no debug file asked for
RobustJsonParse ==
    /\ pc = "robust_json_parse"
    /\ last' = [probe |-> "robust_json_parse", env |-> NoEnv,
                ret |-> robust_json_parse(content, FALSE, TRUE).val, exc |-> "none"]
    /\ pc' = "returned"
    /\ UNCHANGED <<inputs, mainvars, results, fs, spawned, http, clock, progress, api, content>>

\* load_json_file(filepath) on a file that holds content
LoadJsonFile ==
    /\ pc = "load_json_file"
    /\ \E io \in IoModes :
          LET r == load_json_file(fs, JsonFile, io)
          IN  /\ last' = [probe |-> "load_json_file", env |-> [start |-> "none", io |-> io],
                          ret |-> r.val, exc |-> "none"]
              /\ fs' = r.fs
    /\ pc' = "returned"
    /\ UNCHANGED <<inputs, mainvars, results, spawned, http, clock, progress, api, content>>

NextJson == RobustJsonParse \/ LoadJsonFile

SpecJson == InitJson /\ [][NextJson]_vars

\* ------------------------------------------------------------------------
\* The polling adapters on their own, with every request answered in the
\* end: the code is sequential, and a request that is answered lets the
\* adapter take its next step
\* ------------------------------------------------------------------------

InitPoll ==
    /\ Init
    /\ entry = "adapter"
    /\ pc \in {"ssllabs", "mozilla_observatory"}

NextPoll == SsllabsSubmit \/ SsllabsPoll \/ MozillaSubmit \/ MozillaStatus \/ MozillaFetch

FairSpec == InitPoll /\ [][NextPoll]_vars /\ WF_vars(NextPoll)

\* ------------------------------------------------------------------------
\* Properties
\* ------------------------------------------------------------------------

\* the adapters that run an external tool
ProcessBacked == ProcessProbes \cup {"nikto", "http_observatory_scan", "nikto_scan"}

\* an adapter called on its own has come back
AdapterDone == entry = "adapter" /\ pc \in {"returned", "raised"}

\* x is a dry-run descriptor: a mapping marked dry_run that names the output
\* path and the command or the request
IsDryRunDescriptor(x) ==
    /\ IsDict(x)
    /\ GetOr(x, K("dry_run"), PyNone) = PyBool(TRUE)
    /\ HasKey(x, K("output_file"))
    /\ (HasKey(x, K("command")) \/ HasKey(x, K("api")) \/ HasKey(x, K("tool")))

\* the keys of the items of a dict, in order
Keys(items) == [i \in 1..Len(items) |-> items[i][1][1]]

\* the probes selected for a run of run_recon, by its toggles alone
SelectedProbes ==
    ProcessProbes
    \cup (IF use_browser THEN {"browser"} ELSE {})
    \cup (IF use_online_services THEN {"ssllabs", "securityheaders"} ELSE {})

\* C1: an adapter called with dry_run=true launches no process, makes no HTTP
\* request and returns a dry-run descriptor (a mapping marked dry_run that
\* names the command or request and the output path).
C1_DryRunReturnsDescriptor ==
    (AdapterDone /\ dry_run) =>
        /\ pc = "returned"
        /\ spawned = {}
        /\ http = 0
        /\ IsDryRunDescriptor(last.ret)

\* C2: when run_recon returns, results holds exactly one entry for each
\* selected probe: the five tools, browser when use_browser is set, and the
\* online services when use_online_services is set.
C2_OneEntryPerSelectedProbe ==
    (entry = "run_recon" /\ pc = "returned") =>
        /\ {Keys(results)[i] : i \in 1..Len(results)} = SelectedProbes
        /\ Len(results) = Cardinality(SelectedProbes)

\* C3: in run_recon the failure of one probe never lets an exception leave
\* run_recon, so the probes after it are still invoked.
C3_NoExceptionLeavesRunRecon ==
    entry = "run_recon" => (pc # "raised" \/ last.exc = "KeyboardInterrupt")

\* C10: every value run_recon stores in results is a mapping, never None.
C10_ResultsAreMappings ==
    entry = "run_recon" => \A i \in 1..Len(results) : IsDict(results[i][2])

\* the tool of the last adapter started and ran to its exit
ToolRan == last.probe \in ProcessBacked /\ last.env.start = "ok"

\* the output the tool of a probe prints when all goes well, for the
\* adapters that read the captured stdout
GoodOutput(probe) ==
    CASE probe = "theharvester" -> <<"<email>", "a@example.com", "</email>">>
      [] probe = "dnsenum" -> DnsReport
      [] probe = "sslscan" -> SslReport
      [] probe = "wafw00f" -> WafReport
      [] OTHER -> ValidJson

\* the tool left its output: a well-formed output file and its report on
\* the captured stdout
LeftGoodOutput ==
    /\ last.env.io = "ok"
    /\ last.env.stdout = GoodOutput(last.probe)
    /\ (last.probe = "dnsenum"
        \/ (last.env.outfile_present /\ last.env.outfile = GoodFile(last.probe)))

\* the declared output file is missing, empty, or holds text that is neither
\* JSON nor markup
OutputFileUnusable ==
    \/ ~last.env.outfile_present
    \/ last.env.outfile = <<>>
    \/ last.env.outfile \in {<<"x">>, <<"a@example.com">>}

\* the adapter came back with a value that is not None
GaveResult == pc = "returned" /\ last.exc = "none" /\ last.ret # PyNone

\* the adapter came back with a result that reports no error
GaveSuccess ==
    /\ GaveResult
    /\ IsDict(last.ret) => GetOr(last.ret, K("error"), PyNone) = PyNone

\* between two requests of a polling loop
Polling == api.phase \in {"polling", "status"}

\* C4: the polling loops of run_ssllabs and run_mozilla_observatory do not
\* poll for ever: an adapter that is polling comes back in the end, even if
\* the remote never reports a terminal state.
C4_PollingEnds == Polling ~> (pc \in {"returned", "raised"})

\* C5: a non-zero exit code alone is not fatal: a process-backed adapter whose
\* tool exited non-zero but left its output still comes back with a result.
C5_NonZeroExitNotFatal ==
    (AdapterDone /\ ToolRan /\ last.env.rc # 0 /\ LeftGoodOutput) => GaveResult

\* C6: when the declared output file is missing, empty or unparsable, a
\* process-backed adapter falls back to the captured stdout and comes back
\* with what it extracts from it.
C6_FallsBackToStdout ==
    (/\ AdapterDone
     /\ ToolRan
     /\ last.env.rc = 0
     /\ last.env.io = "ok"
     /\ OutputFileUnusable
     /\ last.env.stdout = GoodOutput(last.probe)) => GaveResult

\* C7: an adapter that loads an output file holding valid JSON (the empty
\* array, the empty object and null included) reports a success, which a
\* parse failure cannot be taken for.
C7_ValidJsonIsSuccess ==
    (/\ AdapterDone
     /\ ToolRan
     /\ last.probe \in {"whatweb", "sslscan", "wafw00f", "nikto"}
     /\ last.env.rc = 0
     /\ last.env.io = "ok"
     /\ last.env.outfile_present
     /\ JsonLoads(last.env.outfile).ok) => GaveSuccess

RECURSIVE Holds(_, _)
\* the value x is v, or lies somewhere inside the list or dict v
Holds(v, x) ==
    \/ v = x
    \/ v.t = "arr" /\ \E i \in 1..Len(v.v) : Holds(v.v[i], x)
    \/ v.t = "obj" /\ \E i \in 1..Len(v.v) : Holds(v.v[i][2], x)

\* the values of the JSON objects that lie in the text, each a stretch of it
\* from a "{" to a "}" that json.loads accepts
EmbeddedObjects(text) ==
    {JsonLoads(SubSeq(text, i, j)).val :
        <<i, j>> \in {p \in (1..Len(text)) \X (1..Len(text)) :
                        /\ p[1] < p[2]
                        /\ text[p[1]] = "{"
                        /\ text[p[2]] = "}"
                        /\ JsonLoads(SubSeq(text, p[1], p[2])).ok}}

\* the text with the closing bracket a truncation took away: the text cut
\* after an element, or after the comma that follows one
Closed(text) ==
    IF Len(text) > 0 /\ text[Len(text)] = ","
    THEN SubSeq(text, 1, Len(text) - 1) \o <<"]">>
    ELSE text \o <<"]">>

\* the text is a JSON array cut before its closing bracket, with at least
\* one whole element before the cut
TruncatedArray(text) ==
    /\ Len(text) > 1
    /\ text[1] = "["
    /\ ~JsonLoads(text).ok
    /\ JsonLoads(Closed(text)).ok
    /\ JsonLoads(Closed(text)).val.t = "arr"
    /\ Len(JsonLoads(Closed(text)).val.v) > 0

\* robust_json_parse or load_json_file came back, having read the text
ParsedText ==
    /\ pc = "returned"
    /\ last.probe \in {"robust_json_parse", "load_json_file"}
    /\ last.probe = "load_json_file" => last.env.io = "ok"

\* C8: from a text that is not JSON as a whole but holds a valid JSON object,
\* with noise before, after or between, robust_json_parse gives a value
\* other than None in which such an object is present.
C8_EmbeddedObjectRecovered ==
    (ParsedText /\ ~JsonLoads(content).ok /\ EmbeddedObjects(content) # {}) =>
        /\ last.ret # PyNone
        /\ \E x \in EmbeddedObjects(content) : Holds(last.ret, x)

\* C9: from a JSON array cut before its closing bracket robust_json_parse
\* gives a value other than None that holds the whole elements before the cut.
C9_TruncatedArrayRecovered ==
    (ParsedText /\ TruncatedArray(content)) =>
        /\ last.ret # PyNone
        /\ \A i \in 1..Len(JsonLoads(Closed(content)).val.v) :
              Holds(last.ret, JsonLoads(Closed(content)).val.v[i])


\* ------------------------------------------------------------------------
\* The probes run_recon leaves out
\* ------------------------------------------------------------------------

\* the probes of a run of run_recon that a toggle or the form of the target
\* keeps from running
SkippedProbes ==
    (IF use_browser /\ HasScheme(target) THEN {} ELSE {"browser"})
    \cup (IF use_online_services THEN {} ELSE {"ssllabs", "securityheaders"})

\* x is the record of a probe that was skipped: a mapping whose status says so
IsSkippedRecord(x) ==
    IsDict(x) /\ GetOr(x, K("status"), PyNone) \in {S("Skipped"), S("skipped")}

\* C11: when run_recon returns, every probe it did not run, because of a
\* toggle or because the target has no http/https scheme, has exactly one
\* entry in results, and that entry is marked Skipped.
C11_SkippedProbesRecorded ==
    (entry = "run_recon" /\ pc = "returned") =>
        \A p \in SkippedProbes :
            /\ Cardinality({i \in 1..Len(results) : Keys(results)[i] = p}) = 1
            /\ \A i \in 1..Len(results) :
                  Keys(results)[i] = p => IsSkippedRecord(results[i][2])

\* C20: when run_recon returns, the progress bar has completed as many tasks
\* as the total it was told, and it never counts more than the total.
C20_ProgressReachesTotal ==
    /\ entry = "run_recon" => progress.completed <= progress.total
    /\ (entry = "run_recon" /\ pc = "returned") => progress.completed = progress.total

\* ------------------------------------------------------------------------
\* A run in which the tools fail
\* ------------------------------------------------------------------------

\* the tool of the last probe of run_recon ran and exited non-zero with
\* nothing on stdout
ToolFailed ==
    /\ entry = "run_recon"
    /\ last.probe \in ProcessProbes
    /\ last.env.start = "ok"
    /\ last.env.rc # 0
    /\ last.env.stdout = <<>>

\* x is marked as failed: a mapping that carries an error
CarriesError(x) == IsDict(x) /\ GetOr(x, K("error"), PyNone) # PyNone

\* C13: in a run of run_recon on example.com without dry_run, a probe whose
\* tool exits non-zero with empty stdout lets no exception out of run_recon
\* and leaves in results an entry that carries an error.
C13_FailedToolsMarkedFailed ==
    (ToolFailed /\ ~HasScheme(target) /\ ~dry_run) =>
        /\ pc # "raised"
        /\ \E i \in 1..Len(results) :
              Keys(results)[i] = last.probe /\ CarriesError(results[i][2])

\* ------------------------------------------------------------------------
\* The files an adapter writes
\* ------------------------------------------------------------------------

\* the call of a process-backed adapter on its own, as test_recon.py,
\* test_nikto.py and cli.py make it
Call(probe, t, out_dir, o, dry, files, e) ==
    CASE probe = "whatweb" -> run_whatweb(t, out_dir, dry, files, e)
      [] probe = "theharvester" -> run_theharvester(t, out_dir, dry, files, e)
      [] probe = "dnsenum" -> run_dnsenum(t, out_dir, dry, files, e)
      [] probe = "sslscan" -> run_sslscan(t, out_dir, dry, files, e)
      [] probe = "wafw00f" -> run_wafw00f(t, out_dir, dry, files, e)
      [] probe = "nikto" ->
            run_nikto(t, out_dir, o.scan_type, o.custom_options, dry, files, e)
      [] probe = "http_observatory_scan" ->
            http_observatory_scan(t, out_dir, dry, files, e)
      [] probe = "nikto_scan" -> nikto_scan(t, out_dir, o.timeout, dry, files, e)

\* the files that existed when the call was made
FilesAtCall == disk_at_call

\* the files below output_dir that a call left and that were not there before
Written(before, after, out_dir) ==
    {p \in DOMAIN after : Len(p) > 1 /\ p[1] = out_dir /\ p \notin DOMAIN before}

\* the paths a returned value reports
Reported(x) ==
    IF IsDict(x)
    THEN {GetOr(x, K(k), PyNone) : k \in {"output_file", "summary_file", "debug_file"}}
    ELSE {}

\* a process-backed adapter called on its own has returned after its tool ran
RanAlone == AdapterDone /\ last.probe \in ProcessBacked /\ last.env.start = "ok"

\* the same call made at the second now
Again(now) ==
    Call(last.probe, target, OutDir, opts, dry_run, FilesAtCall,
         [last.env EXCEPT !.now = now, !.later = IF @ < now THEN now ELSE @])

\* C16: the same call of an adapter, with the same target, options, output
\* directory and tool behaviour, made at another time writes the same files
\* below the output directory and reports the same paths.
C16_PathsIndependentOfTime ==
    RanAlone =>
        \A now \in Clocks :
            /\ Written(FilesAtCall, Again(now).fs, OutDir)
                 = Written(FilesAtCall, fs, OutDir)
            /\ Reported(Again(now).ret) = Reported(last.ret)

\* the targets a second call into the same output directory can be for
OtherTargets == Targets \cup {[scheme |-> "", host |-> "example.org"]}

\* the files the last adapter wrote below the output directory
WrittenNow == Written(FilesAtCall, fs, OutDir)

\* C17: the files an adapter writes below an output directory are written by
\* no other probe and by no call of the same probe for another target into
\* that directory.
C17_NoSharedFiles ==
    RanAlone =>
        /\ \A q \in ProcessBacked \ {last.probe} :
              \A e \in CoarseEnvs(q), disk \in DisksAtCall(q) :
                 Written(disk, Call(q, target, OutDir, opts, dry_run, disk, e).fs, OutDir)
                    \cap WrittenNow = {}
        /\ \A t \in OtherTargets \ {target} :
              Written(FilesAtCall,
                      Call(last.probe, t, OutDir, opts, dry_run, FilesAtCall,
                           last.env).fs,
                      OutDir) \cap WrittenNow = {}

\* ------------------------------------------------------------------------
\* Reading a result back from the disk
\* ------------------------------------------------------------------------

\* the file an adapter declares as its output: its output_file, for
\* run_dnsenum its json_output_file
DeclaredOutput(probe) ==
    CASE probe = "whatweb" -> Join(OutDir, "whatweb.json")
      [] probe = "theharvester" -> Join(OutDir, "theharvester.xml")
      [] probe = "dnsenum" -> Join(OutDir, "dnsenum.json")
      [] probe = "sslscan" -> Join(OutDir, "sslscan.json")
      [] probe = "wafw00f" -> Join(OutDir, "wafw00f.json")
      [] probe = "browser" -> Join(OutDir, "browser_recon.json")
      [] probe = "ssllabs" -> Join(OutDir, "ssllabs.json")
      [] probe = "securityheaders" -> Join(OutDir, "securityheaders.json")
      [] probe = "mozilla_observatory" -> Join(OutDir, "mozilla_observatory.json")
      [] probe = "http_observatory_scan" ->
            <<OutDir, "/", "http_observatory_">> \o UrlFileText(target) \o <<".json">>
      [] probe = "nikto_scan" -> <<OutDir, "/", "nikto_">> \o UrlFileText(target) \o <<".json">>
      [] probe = "nikto" -> GetOr(last.ret, K("output_file"), PyStr(<<>>)).v

\* the data of a result that the declared output file is to hold: run_nikto
\* wraps the data of its output file in a dict of its own
Structured(probe, ret) ==
    IF probe = "nikto" THEN GetOr(ret, K("raw_results"), PyNone) ELSE ret

\* an adapter called on its own, without dry_run and on a disk that can be
\* read and written, came back with a result that reports no error
Succeeded ==
    /\ AdapterDone
    /\ GaveSuccess
    /\ ~dry_run
    /\ "io" \in DOMAIN last.env
    /\ last.env.io = "ok"

\* C18: the result a successful probe returns equals what load_json_file
\* reads back from the probe's declared output file.
C18_ResultReadsBack ==
    Succeeded =>
        load_json_file(fs, DeclaredOutput(last.probe), "ok").val
            = Structured(last.probe, last.ret)

\* ------------------------------------------------------------------------
\* Timeouts
\* ------------------------------------------------------------------------

\* two adapters called on their own, one that runs a tool and one that sends
\* an HTTP request
InitTimed ==
    /\ Init
    /\ entry = "adapter"
    /\ pc \in {"dnsenum", "securityheaders"}

NextTimed == Dnsenum \/ Securityheaders \/ Hang

\* the program goes on whenever it can: it is sequential, and only a call
\* that does not come back stops it
TimedSpec == InitTimed /\ [][NextTimed]_vars /\ WF_vars(NextTimed)

\* C14: an adapter that waits for a tool or a service that never answers
\* still comes back, after its timeout.
C14_CallsTimeOut == (pc = "blocked") ~> (pc # "blocked")

\* ------------------------------------------------------------------------
\* A user interrupt
\* ------------------------------------------------------------------------

\* the last probe was cut short by Ctrl-C
Interrupted == last.env = [start |-> "interrupt"]

\* C15: a probe of run_recon that a user interrupt cuts short is recorded in
\* results, with an error, and run_recon hands its results back.
C15_InterruptRecorded ==
    (entry = "run_recon" /\ Interrupted) =>
        /\ pc # "raised"
        /\ \E i \in 1..Len(results) :
              Keys(results)[i] = last.probe /\ CarriesError(results[i][2])

\* ------------------------------------------------------------------------
\* main: the target is checked first, and the mode selects the phases
\* ------------------------------------------------------------------------

\* C12: a run of main on an invalid target ends, with status 1, before any
\* directory is made, any log file opened, any phase called or any probe
\* invoked.
C12_InvalidTargetAbortsFirst ==
    (entry = "main" /\ target \in {t \in MainTargets : ~is_valid_target(t)}) =>
        /\ pc \in {"main", "exit_1"}
        /\ fs = <<>>
        /\ calls = <<>>
        /\ spawned = {}
        /\ http = 0
        /\ results = <<>>

\* main has turned an invalid target down
C12_Witness ==
    /\ entry = "main"
    /\ ~is_valid_target(target)
    /\ pc = "exit_1"
    /\ fs = <<>>

\* the phases of a mode, in the order main calls them
Phases(mode) ==
    CASE mode = "recon" -> <<"run_recon">>
      [] mode = "vuln" -> <<"run_scan">>
      [] mode = "full" -> <<"run_recon", "run_scan">>

\* run_recon is running, called by main
ReconRuns ==
    pc \in {"start", "finish"} \cup ProcessProbes \cup {"browser", "ssllabs", "securityheaders"}

\* C19: main calls the phases of its mode and no other, reconnaissance
\* before vulnerability scanning, and every phase is given the toggles of
\* the command line: when main reaches its report, the phases called are
\* exactly those of the mode.
C19_ModeSelectsPhases ==
    entry = "main" =>
        /\ Len(calls) <= Len(Phases(args.mode))
        /\ \A i \in 1..Len(calls) :
              /\ calls[i].fn = Phases(args.mode)[i]
              /\ calls[i].use_browser = ~args.no_browser
              /\ calls[i].dry_run = dry_run
              /\ calls[i].fn = "run_recon" => calls[i].use_online_services = ~args.no_online
        /\ pc = "report" => Len(calls) = Len(Phases(args.mode))
        /\ ReconRuns =>
              /\ args.mode \in {"recon", "full"}
              /\ use_browser = ~args.no_browser
              /\ use_online_services = ~args.no_online
        /\ args.mode = "vuln" => (results = <<>> /\ spawned = {} /\ http = 0)

\* a full run with the browser switched off has called both phases and ended
C19_Witness ==
    /\ entry = "main"
    /\ args.mode = "full"
    /\ args.no_browser
    /\ pc = "exit_0"
    /\ Len(calls) = 2
    /\ "whatweb" \in spawned

\* ------------------------------------------------------------------------
\* Dry runs
\* ------------------------------------------------------------------------

\* the adapter a call on its own is a call of
CalledProbe == IF pc \in AdapterProbes THEN pc ELSE last.probe

\* C21: a dry run has no side effects: with dry_run=true neither run_recon
\* nor an adapter makes a directory or writes a file, so the files are those
\* that existed when the call was made.
C21_DryRunLeavesFilesUnchanged ==
    (dry_run /\ entry \in {"run_recon", "adapter"}) => fs = FilesAtCall

\* ------------------------------------------------------------------------
\* The error a result carries
\* ------------------------------------------------------------------------

\* a recon adapter that runs a tool, called on its own without dry_run,
\* returned after its tool ran to its exit
CameBack ==
    AdapterDone /\ pc = "returned" /\ ToolRan /\ last.probe \in ProcessProbes /\ ~dry_run

\* the tool exited with status 0 and left its output on a disk that works
FullSuccess == last.env.rc = 0 /\ LeftGoodOutput

\* x carries a non-empty error description
CarriesErrorText(x) ==
    /\ IsDict(x)
    /\ GetOr(x, K("error"), PyNone).t = "str"
    /\ GetOr(x, K("error"), PyNone).v # <<>>

\* C22: the result of an adapter carries an error description if and only
\* if the probe failed or only partly succeeded: after a tool that exited
\* with status 0 and left its output the result carries no error, and after
\* a tool that exited non-zero the result is a mapping with a non-empty
\* error.
C22_ErrorIffNotSuccessful ==
    CameBack =>
        /\ FullSuccess => ~CarriesError(last.ret)
        /\ last.env.rc # 0 => CarriesErrorText(last.ret)

\* ------------------------------------------------------------------------
\* The shapes of run_nikto's result
\* ------------------------------------------------------------------------

\* run_nikto, called on its own, has returned
NiktoReturned == AdapterDone /\ pc = "returned" /\ last.probe = "nikto"

IsNiktoDryRun(x) == GetOr(x, K("dry_run"), PyNone) = PyBool(TRUE) /\ HasKey(x, K("command"))

IsNiktoError(x) == HasKey(x, K("error"))

IsNiktoSuccess(x) ==
    HasKey(x, K("output_file")) /\ HasKey(x, K("summary_file")) /\ HasKey(x, K("summary"))

\* C23: what run_nikto returns is a mapping, never None, of exactly one of
\* three shapes: the dry-run descriptor (for a dry run, and only then), an
\* error result, or a success result with output_file, summary_file and
\* summary; a success and a dry-run descriptor carry no 'error'.
C23_NiktoResultShapes ==
    NiktoReturned =>
        /\ IsDict(last.ret)
        /\ IsNiktoDryRun(last.ret) <=> dry_run
        /\ \/ IsNiktoDryRun(last.ret) /\ ~IsNiktoError(last.ret) /\ ~IsNiktoSuccess(last.ret)
           \/ IsNiktoError(last.ret) /\ ~IsNiktoDryRun(last.ret) /\ ~IsNiktoSuccess(last.ret)
           \/ IsNiktoSuccess(last.ret) /\ ~IsNiktoDryRun(last.ret) /\ ~IsNiktoError(last.ret)

\* run_nikto returned a success result after a tool that exited non-zero
C23_Witness ==
    /\ NiktoReturned
    /\ IsNiktoSuccess(last.ret)
    /\ last.env.start = "ok"
    /\ last.env.rc # 0

\* ------------------------------------------------------------------------
\* The polling adapters: terminal states
\* ------------------------------------------------------------------------

\* the adapter of a remote service that is polled is at work, not in a dry run
AtApi == pc \in {"ssllabs", "mozilla_observatory"} /\ ~dry_run

\* the status the remote reported last
RemoteStatus(data) ==
    IF IsDict(data)
    THEN IF HasKey(data, K("status")) THEN Get(data, K("status"))
         ELSE GetOr(data, K("state"), PyNone)
    ELSE PyNone

\* C24: an API-backed adapter goes from Polling to Ready exactly when the
\* remote reports its success terminal value (READY, FINISHED); once Ready
\* it sends one request, the fetch of the full result, and returns; and it
\* returns a result only from Ready, by way of that fetch.
C24_FetchFollowsReady ==
    [][AtApi =>
          /\ (api'.phase = "fetch" /\ api.phase # "fetch") =>
                RemoteStatus(api'.data) \in {S("READY"), S("FINISHED")}
          /\ api.phase = "fetch" => (pc' # pc /\ http' = Bump(http, 1, MaxHttp))
          /\ (pc' # pc /\ last'.exc = "none" /\ last'.ret # PyNone) => api.phase = "fetch"]_vars

\* the reply r, received in phase `phase` of the adapter `probe`, is a
\* failure: the transport raised or the body is no JSON, a reply that the
\* adapter reads the status from (every reply to run_ssllabs, the replies to
\* the status requests of run_mozilla_observatory) holds the failure
\* terminal value, or the reply to the submit of a Mozilla Observatory scan
\* carries an error
FailureReply(probe, phase, r) ==
    /\ "kind" \in DOMAIN r
    /\ \/ r.kind # "json"
       \/ /\ probe = "ssllabs" \/ phase = "status"
          /\ RemoteStatus(r.data) \in {S("ERROR"), S("FAILED")}
       \/ /\ probe = "mozilla_observatory"
          /\ phase = "idle"
          /\ IsDict(r.data)
          /\ HasKey(r.data, K("error"))

\* C25: in run_ssllabs and run_mozilla_observatory a failure reply (status
\* ERROR / FAILED, an error in the submit response, a request that raises
\* during submit, poll or fetch) ends the adapter at once: it returns None,
\* having written no file and sent no further request, and it never goes
\* on polling after such a reply.
C25_FailureRepliesEndAdapter ==
    [][AtApi =>
          /\ (pc' # pc /\ FailureReply(pc, api.phase, last'.env)) =>
                /\ last'.ret = PyNone
                /\ last'.exc = "none"
                /\ fs' = fs
                /\ http' = Bump(http, 1, MaxHttp)
          /\ (pc' = pc /\ api' # api) =>
                ~FailureReply(pc, api.phase, Reply("json", api'.data))]_vars

\* run_mozilla_observatory returned None after its fetch request raised
C25_Witness ==
    /\ AdapterDone
    /\ last.probe = "mozilla_observatory"
    /\ last.env = Reply("error", PyNone)
    /\ http = 3
    /\ last.ret = PyNone
    /\ ~Exists(fs, Join(OutDir, "mozilla_observatory.json"))

\* ------------------------------------------------------------------------
\* The repair of theHarvester's markup
\* ------------------------------------------------------------------------

\* run_theharvester, called on its own, returned after its tool exited with
\* status 0 on a disk that works
HarvesterRan ==
    /\ AdapterDone
    /\ pc = "returned"
    /\ last.probe = "theharvester"
    /\ ToolRan
    /\ last.env.rc = 0
    /\ last.env.io = "ok"

\* the text of theharvester.xml that the adapter parsed: the tool's file, or
\* the captured stdout saved in its place
HarvesterMarkup ==
    IF last.env.outfile_present THEN last.env.outfile ELSE last.env.stdout

\* the text holds neither the declaration header nor the root element
LacksHeaderAndRoot(text) ==
    /\ ~(Len(text) > 0 /\ text[1] = XmlDecl)
    /\ \A i \in 1..Len(text) : text[i] # "<theHarvester>"

\* x has empty emails, hosts and vhosts and records an error
IsEmptyHarvest(x) ==
    /\ CarriesError(x)
    /\ \A k \in {"emails", "hosts", "vhosts"} : GetOr(x, K(k), PyNone) = PyList(<<>>)

\* C26: when the strict parse of theHarvester's markup fails, the repaired
\* document has the declaration as its first item and is parsed in its
\* turn; markup that lacks both the declaration and the root element is
\* parsed successfully after the repair; and when the retry fails too the
\* adapter returns empty emails, hosts and vhosts with the error recorded.
C26_RepairedMarkupParses ==
    (HarvesterRan /\ ~XmlParse(HarvesterMarkup).ok) =>
        /\ RepairXml(HarvesterMarkup)[1] = XmlDecl
        /\ LacksHeaderAndRoot(HarvesterMarkup) =>
              /\ XmlParse(RepairXml(HarvesterMarkup)).ok
              /\ ~CarriesError(last.ret)
        /\ XmlParse(RepairXml(HarvesterMarkup)).ok =>
              last.ret = PyDict(HarvesterResults(XmlParse(RepairXml(HarvesterMarkup)).elems))
        /\ ~XmlParse(RepairXml(HarvesterMarkup)).ok => IsEmptyHarvest(last.ret)

\* ------------------------------------------------------------------------
\* robust_json_parse: the order of the recovery steps
\* ------------------------------------------------------------------------

\* the largest {...} or [...] stretch of the stripped text: the longer of the
\* two greedy matches, the stripped text itself when there is neither
LargestEmbedded(text) ==
    LET stripped == Strip(text)
        obj == RegexSearch(stripped, "{", "}")
        arr == RegexSearch(stripped, "[", "]")
    IN  IF obj.found /\ (~arr.found \/ Len(obj.group) >= Len(arr.group)) THEN obj.group
        ELSE IF arr.found THEN arr.group
        ELSE stripped

\* C27: in robust_json_parse the largest embedded {...} or [...] stretch is
\* parsed as it is, and the over-escaped quotes are unescaped only when that
\* parse fails: when the stretch is valid JSON, its value is what
\* robust_json_parse returns.
C27_EmbeddedParsedBeforeUnescape ==
    (ParsedText /\ ~JsonLoads(content).ok /\ JsonLoads(LargestEmbedded(content)).ok) =>
        last.ret = JsonLoads(LargestEmbedded(content)).val

\* ------------------------------------------------------------------------
\* robust_json_parse: the line-by-line step
\* ------------------------------------------------------------------------

RECURSIVE LineValues(_, _)
\* the parsed values, in order, of the lines from line i on that json.loads
\* accepts once stripped
LineValues(lines, i) ==
    IF i > Len(lines) THEN <<>>
    ELSE (IF JsonLoads(Strip(lines[i])).ok THEN <<JsonLoads(Strip(lines[i])).val>> ELSE <<>>)
         \o LineValues(lines, i + 1)

\* robust_json_parse came to its last step: neither the text nor its
\* cleaned form is JSON
ReachedLines ==
    /\ ParsedText
    /\ ~JsonLoads(content).ok
    /\ ~JsonLoads(FixEscapes(CleanContent(content))).ok

\* C28: the last step of robust_json_parse returns the sequence, in input
\* order, of the parsed values of every line of its input that is JSON on
\* its own, whatever the kind of the value, and None if and only if no line
\* is.
C28_EveryParsingLineCollected ==
    ReachedLines =>
        LET json_data == LineValues(Split(FixEscapes(CleanContent(content)), 1, <<>>), 1)
        IN  IF json_data = <<>> THEN last.ret = PyNone ELSE last.ret = PyList(json_data)

\* ------------------------------------------------------------------------
\* run_recon: one probe at a time
\* ------------------------------------------------------------------------

\* the order in which run_recon calls the probes
ProbeOrder ==
    <<"whatweb", "theharvester", "dnsenum", "sslscan", "wafw00f", "browser", "ssllabs",
      "securityheaders">>

ProbeSet == {ProbeOrder[i] : i \in 1..Len(ProbeOrder)}

ProbeIndex(probe) == CHOOSE i \in 1..Len(ProbeOrder) : ProbeOrder[i] = probe

\* the file an adapter of run_recon writes its normalized result to
\* (run_whatweb writes none: it returns what it reads from the tool's file)
NormalizedOutput(probe) ==
    CASE probe = "theharvester" -> Join(ReconDir, "theharvester.json")
      [] probe = "dnsenum" -> Join(ReconDir, "dnsenum.json")
      [] probe = "sslscan" -> Join(ReconDir, "sslscan.json")
      [] probe = "wafw00f" -> Join(ReconDir, "wafw00f_parsed.json")
      [] probe = "browser" -> Join(ReconDir, "browser_recon.json")
      [] probe = "ssllabs" -> Join(ReconDir, "ssllabs.json")
      [] probe = "securityheaders" -> Join(ReconDir, "securityheaders.json")

\* the invocation of a probe is under way: its tool or its service has not
\* answered, its browser is launched and not closed, or its polling goes on
InFlight(probe) ==
    \/ pc = probe /\ api.phase # "idle"
    \/ pc = "blocked" /\ last.probe = probe

\* C29: in run_recon one probe is in flight at a time and the probes start
\* in the fixed order whatweb, theharvester, dnsenum, sslscan, wafw00f,
\* browser, ssllabs, securityheaders; the normalized output of a probe is
\* written only when its invocation is over; results is written by the
\* coordinator alone, once per probe, with the value the probe's adapter
\* returned, and never for a probe whose call has not come back.
C29_OneProbeAtATime ==
    /\ [](entry = "run_recon" =>
            \A p \in ProbeSet \ {"whatweb"} :
                InFlight(p) => ~Exists(fs, NormalizedOutput(p)))
    /\ [][entry = "run_recon" =>
          /\ (pc \in ProbeSet /\ pc' \in ProbeSet /\ pc' # pc) =>
                ProbeIndex(pc') > ProbeIndex(pc)
          /\ spawned' # spawned => (pc \in ProbeSet /\ spawned' = spawned \cup {pc})
          /\ http' # http => pc \in ProbeSet
          /\ results' # results =>
                /\ pc \in ProbeSet
                /\ pc' = After(pc)
                /\ last'.probe = pc
                /\ \A i \in 1..Len(results) : Keys(results)[i] # pc
                /\ results' = Append(results, <<ResultKey(pc), last'.ret>>)
          /\ (pc \in ProbeSet /\ pc' # pc /\ results' = results) =>
                pc' \in {"blocked", "raised"}]_vars

\* ------------------------------------------------------------------------
\* create_nikto_summary on its own
\* ------------------------------------------------------------------------

\* the lists of vulnerabilities have at most MaxVulns elements
MaxVulns == 3

\* what a list of vulnerabilities can hold: entries whose message holds a
\* keyword of each severity or none, an entry without a message, an entry
\* whose message is no string, and an element that is no mapping
VulnEntries ==
    {PyDict(<< <<K("id"), PyInt(1)>>, <<K("message"), PyStr(<<"XSS", SP, "found">>)>> >>),
     PyDict(<< <<K("message"), PyStr(<<"Outdated">>)>> >>),
     PyDict(<< <<K("id"), PyInt(2)>>, <<K("message"), PyStr(<<"Header">>)>> >>),
     PyDict(<< <<K("message"), PyStr(<<"x">>)>> >>),
     PyDict(<<>>),
     PyDict(<< <<K("message"), PyInt(1)>> >>),
     PyStr(<<"x">>)}

\* the parsed results of a scan
NiktoDatas ==
    {PyDict(<< <<K("vulnerabilities"), PyList(vs)>> >>) :
        vs \in UNION {[1..k -> VulnEntries] : k \in 0..MaxVulns}}
    \cup {PyDict(<<>>), PyList(<<>>), PyList(<<S("vulnerabilities")>>), PyInt(1),
          PyDict(<< <<K("vulnerabilities"), PyDict(<<>>)>> >>),
          PyDict(<< <<K("vulnerabilities"), PyNone>> >>),
          PyDict(<< <<K("details"), PyDict(<< <<K("host"), S("example.com")>> >>)>>,
                    <<K("vulnerabilities"), PyList(<<PyDict(<<>>)>>)>> >>)}

InitSummary ==
    /\ entry = "create_nikto_summary"
    /\ pc = entry
    /\ nikto_data \in NiktoDatas
    /\ target \in {t \in Targets : t.scheme # ""}
    /\ opts = DefaultOpts
    /\ use_browser = FALSE
    /\ use_online_services = FALSE
    /\ dry_run = FALSE
    /\ output_dir = GivenDir
    /\ fs = <<>>
    /\ results = <<>>
    /\ last = NoCall
    /\ spawned = {}
    /\ http = 0
    /\ clock = 0
    /\ progress = NoProgress
    /\ api = Idle
    /\ content = <<>>
    /\ args = NoArgs
    /\ calls = <<>>
    /\ disk_at_call = fs

\* create_nikto_summary(nikto_data, target, scan_type, duration)
CreateNiktoSummary ==
    /\ pc = "create_nikto_summary"
    /\ \E now \in Clocks, d \in Durations :
          last' = [probe |-> "create_nikto_summary", env |-> NoEnv, exc |-> "none",
                   ret |-> create_nikto_summary(nikto_data, target, opts.scan_type,
                                                PyFloat(d), now)]
    /\ pc' = "returned"
    /\ UNCHANGED <<inputs, mainvars, results, fs, spawned, http, clock, progress, api, content>>

NextSummary == CreateNiktoSummary

SpecSummary == InitSummary /\ [][NextSummary]_vars

\* create_nikto_summary returned a summary without an 'error' key
Summarised ==
    /\ pc = "returned"
    /\ last.probe = "create_nikto_summary"
    /\ ~HasKey(last.ret, K("error"))

\* the vulnerabilities of the input, in order
InputVulns ==
    IF IsDict(nikto_data) /\ HasKey(nikto_data, K("vulnerabilities"))
    THEN Iterate(Get(nikto_data, K("vulnerabilities")))
    ELSE <<>>

Severities == {"high", "medium", "low", "info"}

\* the counter of a severity in a summary
Counter(summary, severity) == Get(Get(summary, K("vulnerabilities")), K(severity)).v

\* C30: in a summary that create_nikto_summary returns without an 'error'
\* key, every vulnerability of the input has one finding, in input order,
\* and is counted in exactly one of the counters high, medium, low and info,
\* so that total_findings = high + medium + low + info = the number of
\* findings = the number of vulnerabilities of the input.
C30_SummaryCountsEveryVulnerability ==
    Summarised =>
        LET findings == Get(last.ret, K("findings")).v
        IN  /\ Len(findings) = Len(InputVulns)
            /\ Get(last.ret, K("total_findings")) = PyInt(Len(findings))
            /\ Counter(last.ret, "high") + Counter(last.ret, "medium")
                  + Counter(last.ret, "low") + Counter(last.ret, "info") = Len(findings)
            /\ \A k \in Severities :
                  Counter(last.ret, k)
                     = Cardinality({i \in 1..Len(findings) :
                                       Get(findings[i], K("severity")) = S(k)})
            /\ \A i \in 1..Len(findings) :
                  /\ Get(findings[i], K("severity")) \in {S(k) : k \in Severities}
                  /\ Get(findings[i], K("message"))
                        = GetOr(InputVulns[i], K("message"), PyStr(<<>>))
                  /\ Get(findings[i], K("id")) = GetOr(InputVulns[i], K("id"), S("unknown"))

\* a summary of three vulnerabilities of three different severities
C30_Witness ==
    /\ Summarised
    /\ Len(Get(last.ret, K("findings")).v) = 3
    /\ Counter(last.ret, "high") = 1
    /\ Counter(last.ret, "low") = 1
    /\ Counter(last.ret, "info") = 1

====
